---- MODULE Spec2Model ----
(***************************************************************************)
(* Record linkage of the concerts ETL: consolidate_events merges the       *)
(* shotgun and dice event lists into one row per concert.  Text is a       *)
(* sequence of one-character strings so that normalisation, tokenisation   *)
(* and the lexicographic sort are computed character by character.         *)
(* The other components follow: merge_shotgun_dice, run_all with its two   *)
(* adapter tasks and the CSV files, the worksheet and its four writers     *)
(* (one step per request, calls interleaving), the headers and the matrix  *)
(* of an export, and the card loops of the adapters.                       *)
(***************************************************************************)
EXTENDS Integers, Sequences, FiniteSets, TLC

\* ------------------------------------------------------------------------
\* Characters
\* ------------------------------------------------------------------------

UpperChars == <<"A","B","C","D","E","F","G","H","I","J","K","L","M",
                "N","O","P","Q","R","S","T","U","V","W","X","Y","Z">>

LowerChars == <<"a","b","c","d","e","f","g","h","i","j","k","l","m",
                "n","o","p","q","r","s","t","u","v","w","x","y","z">>

DigitChars == <<"0","1","2","3","4","5","6","7","8","9">>

\* Python's None for an Optional[str] field: a text no real text equals.
None == <<"None">>

\* Python's None for Optional[int] (ticket counts are non-negative).
NoneInt == -1

\* Python's None for Optional[datetime]; a datetime is <<y, m, d, hh, mi>>.
NoDate == <<>>

IndexOf(seq, c) == CHOOSE i \in 1..Len(seq) : seq[i] = c

InSeq(seq, c) == \E i \in 1..Len(seq) : seq[i] = c

\* ord(c) for the characters that occur; accented letters and dashes are
\* named by their code point.
CodePoint(c) ==
  IF InSeq(UpperChars, c) THEN 64 + IndexOf(UpperChars, c)
  ELSE IF InSeq(LowerChars, c) THEN 96 + IndexOf(LowerChars, c)
  ELSE IF InSeq(DigitChars, c) THEN 47 + IndexOf(DigitChars, c)
  ELSE CASE c = "\t" -> 9
         [] c = " " -> 32
         [] c = "&" -> 38
         [] c = "+" -> 43
         [] c = "," -> 44
         [] c = "-" -> 45
         [] c = "." -> 46
         [] c = "/" -> 47
         [] c = "@" -> 64
         [] c = "_" -> 95
         [] c = "U+00C9" -> 201
         [] c = "U+00E9" -> 233
         [] c = "U+0301" -> 769
         [] c = "U+2013" -> 8211
         [] c = "U+2014" -> 8212
         [] c = "U+2122" -> 8482

\* str.lower() on one character.
LowerChar(c) ==
  IF InSeq(UpperChars, c) THEN LowerChars[IndexOf(UpperChars, c)]
  ELSE IF c = "U+00C9" THEN "U+00E9"
  ELSE c

Lower(s) == [i \in 1..Len(s) |-> LowerChar(s[i])]

\* unicodedata.normalize("NFKD", c): the accented letters decompose into the
\* base letter followed by the combining acute accent, the trade mark sign
\* (U+2122) into the two capitals TM.
Nfkd(c) ==
  IF c = "U+00E9" THEN <<"e", "U+0301">>
  ELSE IF c = "U+00C9" THEN <<"E", "U+0301">>
  ELSE IF c = "U+2122" THEN <<"T", "M">>
  ELSE <<c>>

\* unicodedata.combining(c) != 0
Combining(c) == c = "U+0301"

\* regex classes \s and \w (Unicode mode)
IsSpace(c) == c \in {" ", "\t"}

IsWord(c) ==
  \/ InSeq(UpperChars, c) \/ InSeq(LowerChars, c) \/ InSeq(DigitChars, c)
  \/ c \in {"_", "U+00E9", "U+00C9"}

\* ------------------------------------------------------------------------
\* Normalisation / tokenisation (consolidate_events.py)
\* ------------------------------------------------------------------------

_STOPWORDS == {
  <<"t","h","e">>, <<"a","n","d">>, <<"f","e","a","t">>, <<"f","t">>, <<"w","i","t","h">>, <<"x">>, <<"&">>, <<"+">>,
  <<"-">>, <<"U+2013">>, <<"U+2014">>,
  <<"l","e">>, <<"l","a">>, <<"l","e","s">>, <<"l">>, <<"d","e">>, <<"d","u">>, <<"d","e","s">>, <<"e","t">>,
  <<"a","u">>, <<"a","u","x">>, <<"c","h","e","z">>, <<"a">>, <<"a","n">>, <<"o","n">>, <<"i","n">> }

RECURSIVE _strip_accents(_)
_strip_accents(s) ==
  IF s = <<>> THEN <<>>
  ELSE SelectSeq(Nfkd(Head(s)), LAMBDA c : ~Combining(c))
         \o _strip_accents(Tail(s))

\* re.sub(r"\s+", " ", s): every maximal run of whitespace becomes one space.
RECURSIVE CollapseSpaces(_)
CollapseSpaces(s) ==
  IF s = <<>> THEN <<>>
  ELSE IF IsSpace(Head(s))
       THEN IF Len(s) > 1 /\ IsSpace(s[2])
            THEN CollapseSpaces(Tail(s))
            ELSE <<" ">> \o CollapseSpaces(Tail(s))
       ELSE <<Head(s)>> \o CollapseSpaces(Tail(s))

\* str.strip()
RECURSIVE LStrip(_)
LStrip(s) == IF s # <<>> /\ IsSpace(Head(s)) THEN LStrip(Tail(s)) ELSE s

RECURSIVE RStrip(_)
RStrip(s) ==
  IF s # <<>> /\ IsSpace(s[Len(s)]) THEN RStrip(SubSeq(s, 1, Len(s) - 1)) ELSE s

Strip(s) == RStrip(LStrip(s))

\* Python truthiness of an Optional[str]
Truthy(s) == s # None /\ s # <<>>

_norm_basic(s) ==
  IF ~Truthy(s) THEN <<>>
  ELSE Strip(CollapseSpaces(Lower(_strip_accents(s))))

\* pattern.match at position i of one of the words of \b(feat|ft|with)\b
WordAt(s, i, w) ==
  /\ i + Len(w) - 1 <= Len(s)
  /\ SubSeq(s, i, i + Len(w) - 1) = w
  /\ (i = 1 \/ ~IsWord(s[i - 1]))
  /\ (i + Len(w) - 1 = Len(s) \/ ~IsWord(s[i + Len(w)]))

\* re.sub(r"\b(feat|ft|with)\b", ",", s), scanning from position i
RECURSIVE SubFeat(_, _)
SubFeat(s, i) ==
  IF i > Len(s) THEN <<>>
  ELSE IF WordAt(s, i, <<"f","e","a","t">>) THEN <<",">> \o SubFeat(s, i + 4)
  ELSE IF WordAt(s, i, <<"f","t">>) THEN <<",">> \o SubFeat(s, i + 2)
  ELSE IF WordAt(s, i, <<"w","i","t","h">>) THEN <<",">> \o SubFeat(s, i + 4)
  ELSE <<s[i]>> \o SubFeat(s, i + 1)

\* length of the run of whitespace that starts at position i
RECURSIVE SpaceRun(_, _)
SpaceRun(s, i) ==
  IF i <= Len(s) /\ IsSpace(s[i]) THEN 1 + SpaceRun(s, i + 1) ELSE 0

\* re.sub(r"\s+[xX]\s+", ",", s), scanning from position i
RECURSIVE SubX(_, _)
SubX(s, i) ==
  IF i > Len(s) THEN <<>>
  ELSE LET n == SpaceRun(s, i)
           m == SpaceRun(s, i + n + 1)
       IN IF n > 0 /\ i + n <= Len(s) /\ s[i + n] \in {"x", "X"} /\ m > 0
          THEN <<",">> \o SubX(s, i + n + 1 + m)
          ELSE <<s[i]>> \o SubX(s, i + 1)

\* s.replace(old, new), scanning from position i
RECURSIVE Replace(_, _, _, _)
Replace(s, old, new, i) ==
  IF i > Len(s) THEN <<>>
  ELSE IF i + Len(old) - 1 <= Len(s) /\ SubSeq(s, i, i + Len(old) - 1) = old
       THEN new \o Replace(s, old, new, i + Len(old))
       ELSE <<s[i]>> \o Replace(s, old, new, i + 1)

\* lines 53-56: every bill separator becomes a comma
Separators(s) ==
  LET s1 == SubFeat(s, 1)
      s2 == SubX(s1, 1)
      s3 == Replace(s2, <<"&">>, <<",">>, 1)
      s4 == Replace(s3, <<"+">>, <<",">>, 1)
      s5 == Replace(s4, <<"/">>, <<",">>, 1)
      s6 == Replace(s5, <<" ","@"," ">>, <<",">>, 1)
      s7 == Replace(s6, <<" ","U+2013"," ">>, <<",">>, 1)
      s8 == Replace(s7, <<" ","U+2014"," ">>, <<",">>, 1)
  IN Replace(s8, <<" ","-"," ">>, <<",">>, 1)

\* s.split(","): the sequence of chunks between commas (empty ones kept)
RECURSIVE SplitComma(_, _)
SplitComma(s, cur) ==
  IF s = <<>> THEN <<cur>>
  ELSE IF Head(s) = "," THEN <<cur>> \o SplitComma(Tail(s), <<>>)
  ELSE SplitComma(Tail(s), Append(cur, Head(s)))

\* re.sub(r"[^\w\s]", " ", chunk)
Depunct(s) ==
  [i \in 1..Len(s) |-> IF IsWord(s[i]) \/ IsSpace(s[i]) THEN s[i] ELSE " "]

\* chunk.split(): the maximal runs of non-whitespace
RECURSIVE SplitSpace(_, _)
SplitSpace(s, cur) ==
  IF s = <<>> THEN (IF cur = <<>> THEN <<>> ELSE <<cur>>)
  ELSE IF IsSpace(Head(s))
       THEN (IF cur = <<>> THEN <<>> ELSE <<cur>>) \o SplitSpace(Tail(s), <<>>)
       ELSE SplitSpace(Tail(s), Append(cur, Head(s)))

\* lines 57-61: the words of every non-empty chunk
RECURSIVE Parts(_)
Parts(chunks) ==
  IF chunks = <<>> THEN <<>>
  ELSE LET chunk == Strip(Depunct(Head(chunks)))
       IN (IF chunk # <<>> THEN SplitSpace(chunk, <<>>) ELSE <<>>)
            \o Parts(Tail(chunks))

\* lines 62-67: short tokens and stopwords are filtered out
KeepToken(t) == Len(t) > 2 /\ t \notin _STOPWORDS

\* the tokens of one field (body of the loop of _artist_tokens)
FieldTokens(raw) ==
  IF ~Truthy(raw) THEN {}
  ELSE LET parts == Parts(SplitComma(Separators(_norm_basic(raw)), <<>>))
       IN {parts[i] : i \in {j \in 1..Len(parts) : KeepToken(parts[j])}}

_artist_tokens(artist_name, event_name) ==
  FieldTokens(artist_name) \union FieldTokens(event_name)

\* ------------------------------------------------------------------------
\* Dates and sort key
\* ------------------------------------------------------------------------

\* the n-digit zero padded decimal form of v ("%04d", "%02d")
RECURSIVE Pad(_, _)
Pad(v, n) == IF n = 0 THEN <<>> ELSE Pad(v \div 10, n - 1) \o <<DigitChars[(v % 10) + 1]>>

\* the decimal form of v without padding ("%d")
RECURSIVE Digits(_)
Digits(v) ==
  IF v < 10 THEN <<DigitChars[v + 1]>>
  ELSE Digits(v \div 10) \o <<DigitChars[(v % 10) + 1]>>

\* datetime.date().isoformat()
IsoDate(dt) == Pad(dt[1], 4) \o <<"-">> \o Pad(dt[2], 2) \o <<"-">> \o Pad(dt[3], 2)

\* _date_str(e): "" when the event has no datetime
_date_str(e) ==
  IF e.event_datetime_local = NoDate THEN <<>> ELSE IsoDate(e.event_datetime_local)

\* Python's "a or b" on texts
Or(a, b) == IF Truthy(a) THEN a ELSE b

\* row.get(key)
Get(row, key) == IF key \in DOMAIN row THEN row[key] ELSE None

\* Python's < on str: lexicographic by code point
RECURSIVE StrLess(_, _)
StrLess(a, b) ==
  IF b = <<>> THEN FALSE
  ELSE IF a = <<>> THEN TRUE
  ELSE IF Head(a) = Head(b) THEN StrLess(Tail(a), Tail(b))
  ELSE CodePoint(Head(a)) < CodePoint(Head(b))

_sort_key(row) ==
  LET dt == Or(Get(row, "event_datetime_local"), Or(Get(row, "event_date"), <<>>))
      nm == Lower(Or(Get(row, "event_name"), <<>>))
  IN <<dt, nm>>

\* Python's < on the (str, str) key tuples
KeyLess(k1, k2) ==
  IF k1[1] = k2[1] THEN StrLess(k1[2], k2[2]) ELSE StrLess(k1[1], k2[1])

\* list.sort(key=_sort_key) as the order of the original positions: a
\* stable insertion sort, an element goes after every element whose key is
\* not greater than its own.
\* An insertion that puts an element before the elements of equal key.
RECURSIVE InsertPos_Unstable(_, _, _)
InsertPos_Unstable(perm, rs, k) ==
  IF perm = <<>> THEN <<k>>
  ELSE IF ~KeyLess(_sort_key(rs[Head(perm)]), _sort_key(rs[k]))
       THEN <<k>> \o perm
       ELSE <<Head(perm)>> \o InsertPos_Unstable(Tail(perm), rs, k)

RECURSIVE InsertPos(_, _, _)
InsertPos(perm, rs, k) ==
  IF perm = <<>> THEN <<k>>
  ELSE IF KeyLess(_sort_key(rs[k]), _sort_key(rs[Head(perm)]))
       THEN <<k>> \o perm
       ELSE <<Head(perm)>> \o InsertPos(Tail(perm), rs, k)

RECURSIVE SortPerm(_, _)
SortPerm(rs, n) ==
  IF n = 0 THEN <<>> ELSE InsertPos(SortPerm(rs, n - 1), rs, n)

Permute(seq, perm) == [k \in 1..Len(perm) |-> seq[perm[k]]]

\* ------------------------------------------------------------------------
\* Inputs
\* ------------------------------------------------------------------------

MaxSg == 2
MaxDc == 2

Event(id, name, artist, venue, city, dt, sold) ==
  [event_id_provider |-> id, event_name |-> name, artist_name |-> artist,
   venue_name |-> venue, city |-> city, event_datetime_local |-> dt,
   tickets_sold_total |-> sold]

\* the two records of the "Artist X" / "Artist Y" example
SgArtistX ==
  Event("artist-x-2", <<"A","r","t","i","s","t"," ","X">>, None, None, None,
        <<2025, 10, 10, 19, 30>>, NoneInt)

DcArtistY ==
  Event("d2", <<"A","r","t","i","s","t"," ","Y">>, None, None, None,
        <<2025, 10, 10, 19, 30>>, NoneInt)

SgPool == {
  Event("daft-punk-1", <<"D","a","f","t"," ","P","u","n","k">>, None, None, <<"P","a","r","i","s">>,
        <<2025, 10, 10, 20, 0>>, 500),
  SgArtistX,
  Event("band-venue1-3", <<"B","a","n","d"," ","@"," ","V","e","n","u","e","1">>, <<"B","a","n","d">>, <<"V","e","n","u","e","1">>, None,
        NoDate, 120),
  Event("band-venue1-3", <<"B","a","n","d"," ","@"," ","V","e","n","u","e","1">>, <<"B","a","n","d">>, <<"V","e","n","u","e","1">>, None,
        NoDate, 80),
  Event("celine-zed-5", <<"C","U+00E9","l","i","n","e"," ","&"," ","Z","e","d">>, None, None, <<"L","y","o","n">>,
        <<2025, 11, 1, 20, 0>>, 0),
  Event("event-6", <<>>, <<"Z","e","d">>, None, None,
        <<2025, 11, 1, 20, 0>>, 30) }

DcPool == {
  Event("d1", <<"D","A","F","T"," ","P","U","N","K"," ","L","I","V","E">>, None, None, None,
        <<2025, 10, 10, 20, 0>>, 480),
  DcArtistY,
  Event("d3", <<"B","a","n","d">>, None, <<"V","e","n","u","e","1">>, None,
        <<2025, 11, 1, 21, 0>>, 75),
  Event("d4", <<"S","o","l","o"," ","E","v","e","n","t">>, None, None, None,
        <<2025, 12, 1, 20, 0>>, 50),
  Event("d3", <<"B","A","N","D"," ","@"," ","V","E","N","U","E","1">>, None, None, <<"L","y","o","n">>,
        NoDate, 10),
  Event("d6", <<"C","U+00C9","L","I","N","E"," ","x"," ","B","a","n","d">>, <<"Z","e","d">>, <<"O","l","y","m","p","i","a">>, <<"N","i","c","e">>,
        <<2025, 11, 1, 20, 0>>, 60) }

\* the lists of at most n distinct elements of S (a scraped card is one
\* record; two cards with the same id are two records of the pool)
ListsUpTo(S, n) ==
  {l \in UNION {[1..k -> S] : k \in 0..n} :
     \A a, b \in 1..Len(l) : a # b => l[a] # l[b]}

\* ------------------------------------------------------------------------
\* consolidate_events
\* ------------------------------------------------------------------------

VARIABLES
  shotgun_events,  \* argument: list of shotgun events
  dice_events,     \* argument: list of dice events
  sg_by_day,       \* dict day -> list of (sg, tokens), in insertion order
  sg_no_date,      \* list of (sg, tokens) of the undated shotgun events
  used_sg,         \* set of event_id_provider of matched shotgun events
  used_dc,         \* set of event_id_provider of matched dice events
  rows,            \* the list of row dicts
  src,             \* for every row, the input records it was built from
  pc,              \* position in consolidate_events
  i                \* index of the running for loop

\* the state of consolidate_events
ceVars == <<shotgun_events, dice_events, sg_by_day, sg_no_date, used_sg, used_dc,
            rows, src, pc, i>>

\* State of the other components; each specification runs one component and
\* leaves the others idle.
VARIABLES
  nx,              \* name normalisation: the input text
  nb,              \* successive results of _norm_basic on nx
  nn               \* successive results of _norm_name on nx

normVars == <<nx, nb, nn>>

VARIABLES
  shotgun,             \* merge_shotgun_dice: the shotgun argument
  dice,                \* the dice argument
  hour_tolerance_min,  \* the tolerance argument, in minutes
  name_threshold,      \* the threshold argument, in hundredths
  sg_index,            \* dict key -> reference to a shotgun record
  out,                 \* dict key -> ConsolidatedRow
  osrc,                \* provenance of out: which records wrote each row
  mpc,                 \* position in merge_shotgun_dice
  mi                   \* loop index

mergeVars == <<shotgun, dice, hour_tolerance_min, name_threshold, sg_index,
               out, osrc, mpc, mi>>

VARIABLES
  cred,            \* run_all: provider -> its credentials are set in Settings
  task,            \* provider -> state of its _run_provider task
  rpc,             \* position in run_all
  all_events,      \* the flattened results
  preview,         \* content of providers_preview.json
  csv_rows,        \* content of consolidated_<date>.csv in the export directory
  exit_status,     \* the value run_all returned
  shotgun_csv      \* content of shotgun_<date>.csv in the export directory

cliVars == <<cred, task, rpc, all_events, preview, csv_rows, exit_status,
             shotgun_csv>>

VARIABLES
  ws,              \* the worksheet: its rows of cells
  call,            \* the calls made on it, in the order they were made:
                   \* function, place in it, argument, cells to write
  ncalls           \* number of calls made so far

sheetVars == <<ws, call, ncalls>>

VARIABLES
  scraper,         \* the adapter whose card loop runs: "shotgun" or "dice"
  cards,           \* the cards (shotgun) or event links (dice) of the page
  ci,              \* loop index
  lpc,             \* dice: position in the body of the loop
  cards_seen,      \* dice: the outerHTML hashes already treated
  events_out       \* the NormalizedEvent records built so far (out)

adapterVars == <<scraper, cards, ci, lpc, cards_seen, events_out>>

VARIABLES
  srows,           \* _blocking: the rows export_to_gsheet was called with
  sheaders,        \* its headers
  smatrix,         \* its matrix
  spc              \* position between lines 110 and 114

schemaVars == <<srows, sheaders, smatrix, spc>>

vars == <<ceVars, normVars, mergeVars, cliVars, sheetVars, adapterVars, schemaVars>>

\* everything but the state of consolidate_events
notCe == <<normVars, mergeVars, cliVars, sheetVars, adapterVars, schemaVars>>

\* everything but the state of the name normalisation
notNorm == <<ceVars, mergeVars, cliVars, sheetVars, adapterVars, schemaVars>>

\* everything but the state of merge_shotgun_dice
notMerge == <<ceVars, normVars, cliVars, sheetVars, adapterVars, schemaVars>>

\* everything but the state of run_all
notCli == <<ceVars, normVars, mergeVars, sheetVars, adapterVars, schemaVars>>

\* everything but the state of the worksheet
notSheet == <<ceVars, normVars, mergeVars, cliVars, adapterVars, schemaVars>>

\* everything but the state of the adapters' card loops
notAdapter == <<ceVars, normVars, mergeVars, cliVars, sheetVars, schemaVars>>

\* everything but the headers and the matrix of an export
notSchema == <<ceVars, normVars, mergeVars, cliVars, sheetVars, adapterVars>>

SchemaIdle == srows = <<>> /\ sheaders = <<>> /\ smatrix = <<>> /\ spc = "idle"

AdapterIdle ==
  /\ scraper = "idle" /\ cards = <<>> /\ ci = 0 /\ lpc = "link"
  /\ cards_seen = {} /\ events_out = <<>>

SheetIdle == ws = <<>> /\ call = <<>> /\ ncalls = 0

CliIdle ==
  /\ cred = <<>> /\ task = <<>>
  /\ rpc = "idle"
  /\ all_events = <<>> /\ preview = <<>> /\ csv_rows = <<>>
  /\ exit_status = -1 /\ shotgun_csv = <<>>

MergeIdle ==
  /\ shotgun = <<>> /\ dice = <<>>
  /\ hour_tolerance_min = 0 /\ name_threshold = 0
  /\ sg_index = <<>> /\ out = <<>> /\ osrc = <<>>
  /\ mpc = "idle" /\ mi = 0

NormIdle == nx = <<>> /\ nb = <<>> /\ nn = <<>>

CeIdle ==
  /\ shotgun_events = <<>> /\ dice_events = <<>>
  /\ sg_by_day = <<>> /\ sg_no_date = <<>>
  /\ used_sg = {} /\ used_dc = {}
  /\ rows = <<>> /\ src = <<>>
  /\ pc = "idle" /\ i = 0

\* A (sg, tokens) tuple; sg is the reference to shotgun_events[sg].
Entry(k, toks) == [sg |-> k, toks |-> toks]

\* sg_by_day.setdefault(d, []).append(entry)
DictAppend(dict, d, entry) ==
  IF \E k \in 1..Len(dict) : dict[k].day = d
  THEN [k \in 1..Len(dict) |->
          IF dict[k].day = d
          THEN [dict[k] EXCEPT !.items = Append(@, entry)]
          ELSE dict[k]]
  ELSE Append(dict, [day |-> d, items |-> <<entry>>])

\* sg_by_day.get(d, [])
DictGet(dict, d) ==
  IF \E k \in 1..Len(dict) : dict[k].day = d
  THEN dict[CHOOSE k \in 1..Len(dict) : dict[k].day = d].items
  ELSE <<>>

\* [(s, t) for lst in sg_by_day.values() for (s, t) in lst]
RECURSIVE DictValues(_)
DictValues(dict) ==
  IF dict = <<>> THEN <<>> ELSE Head(dict).items \o DictValues(Tail(dict))

Init ==
  /\ shotgun_events \in ListsUpTo(SgPool, MaxSg)
  /\ dice_events \in ListsUpTo(DcPool, MaxDc)
  /\ sg_by_day = <<>>
  /\ sg_no_date = <<>>
  /\ used_sg = {}
  /\ used_dc = {}
  /\ rows = <<>>
  /\ src = <<>>
  /\ pc = "index"
  /\ i = 1
  /\ NormIdle
  /\ MergeIdle
  /\ CliIdle
  /\ SheetIdle
  /\ SchemaIdle
  /\ AdapterIdle

\* lines 90-96: one iteration of the indexing loop
IndexShotgun ==
  /\ pc = "index"
  /\ i <= Len(shotgun_events)
  /\ LET sg == shotgun_events[i]
         d == _date_str(sg)
         toks == _artist_tokens(sg.artist_name, sg.event_name)
     IN IF Truthy(d)
        THEN /\ sg_by_day' = DictAppend(sg_by_day, d, Entry(i, toks))
             /\ UNCHANGED sg_no_date
        ELSE /\ sg_no_date' = Append(sg_no_date, Entry(i, toks))
             /\ UNCHANGED sg_by_day
  /\ i' = i + 1
  /\ UNCHANGED <<shotgun_events, dice_events, used_sg, used_dc, rows, src, pc>>
  /\ UNCHANGED notCe

\* lines 98-104: the indexing loop is exhausted, the matching loop starts
StartMatching ==
  /\ pc = "index"
  /\ i > Len(shotgun_events)
  /\ pc' = "match"
  /\ i' = 1
  /\ UNCHANGED <<shotgun_events, dice_events, sg_by_day, sg_no_date,
                 used_sg, used_dc, rows, src>>
  /\ UNCHANGED notCe

\* Overlap that does not count a single shared token.
Overlap_AtLeastTwo(dc_toks, sg_toks) ==
  IF dc_toks # {} /\ sg_toks # {} /\ Cardinality(dc_toks \cap sg_toks) >= 2
  THEN Cardinality(dc_toks \cap sg_toks) ELSE 0

\* Overlap that counts only when the whole dice bill is on the shotgun side.
Overlap_WholeBill(dc_toks, sg_toks) ==
  IF dc_toks # {} /\ dc_toks \subseteq sg_toks THEN Cardinality(dc_toks) ELSE 0

\* line 117 / 126
Overlap(dc_toks, sg_toks) ==
  IF dc_toks # {} /\ sg_toks # {} THEN Cardinality(dc_toks \cap sg_toks) ELSE 0

NoBest == [sg |-> 0, overlap |-> 0]

\* Scan without the "already used" test of lines 115-116 / 124-125.
RECURSIVE Scan_IgnoreUsed(_, _, _, _, _)
Scan_IgnoreUsed(cands, events, used, dc_toks, best) ==
  IF cands = <<>> THEN best
  ELSE LET c == Head(cands)
           overlap == Overlap(dc_toks, c.toks)
           nbest == IF overlap > 0 /\ (best = NoBest \/ overlap > best.overlap)
                    THEN [sg |-> c.sg, overlap |-> overlap]
                    ELSE best
       IN Scan_IgnoreUsed(Tail(cands), events, used, dc_toks, nbest)

\* Scan keeping the last candidate of greatest overlap instead of the first.
RECURSIVE Scan_LastTie(_, _, _, _, _)
Scan_LastTie(cands, events, used, dc_toks, best) ==
  IF cands = <<>> THEN best
  ELSE LET c == Head(cands)
           overlap == Overlap(dc_toks, c.toks)
           nbest == IF /\ events[c.sg].event_id_provider \notin used
                       /\ overlap > 0
                       /\ (best = NoBest \/ overlap >= best.overlap)
                    THEN [sg |-> c.sg, overlap |-> overlap]
                    ELSE best
       IN Scan_LastTie(Tail(cands), events, used, dc_toks, nbest)

\* lines 114-119 / 123-128: scan the candidates in order, keep the first one
\* of strictly greatest positive overlap among those whose id is not used
RECURSIVE Scan(_, _, _, _, _)
Scan(cands, events, used, dc_toks, best) ==
  IF cands = <<>> THEN best
  ELSE LET c == Head(cands)
           overlap == Overlap(dc_toks, c.toks)
           nbest == IF /\ events[c.sg].event_id_provider \notin used
                       /\ overlap > 0
                       /\ (best = NoBest \/ overlap > best.overlap)
                    THEN [sg |-> c.sg, overlap |-> overlap]
                    ELSE best
       IN Scan(Tail(cands), events, used, dc_toks, nbest)

\* Best without the "if best is None" of line 122: the undated shotgun
\* records are scanned in every case, against the best same-day candidate.
Best_FallbackAlways(dc) ==
  LET d == _date_str(dc)
      dc_toks == _artist_tokens(dc.artist_name, dc.event_name)
      a == Scan(DictGet(sg_by_day, d), shotgun_events, used_sg, dc_toks, NoBest)
      b == Scan(sg_no_date, shotgun_events, used_sg, dc_toks, a)
  IN [sg |-> b.sg, overlap |-> b.overlap, from_with_date |-> (a # NoBest /\ b = a)]

\* Best whose first scan runs over the dated shotgun records of every day.
Best_AnyDay(dc) ==
  LET dc_toks == _artist_tokens(dc.artist_name, dc.event_name)
      a == Scan(DictValues(sg_by_day), shotgun_events, used_sg, dc_toks, NoBest)
  IN IF a # NoBest
     THEN [sg |-> a.sg, overlap |-> a.overlap, from_with_date |-> TRUE]
     ELSE LET b == Scan(sg_no_date, shotgun_events, used_sg, dc_toks, NoBest)
          IN [sg |-> b.sg, overlap |-> b.overlap, from_with_date |-> FALSE]

\* lines 110-128: best = (sg, overlap, from_with_date) or None
Best(dc) ==
  LET d == _date_str(dc)
      dc_toks == _artist_tokens(dc.artist_name, dc.event_name)
      a == Scan(DictGet(sg_by_day, d), shotgun_events, used_sg, dc_toks, NoBest)
  IN IF a # NoBest
     THEN [sg |-> a.sg, overlap |-> a.overlap, from_with_date |-> TRUE]
     ELSE LET b == Scan(sg_no_date, shotgun_events, used_sg, dc_toks, NoBest)
          IN [sg |-> b.sg, overlap |-> b.overlap, from_with_date |-> FALSE]

\* The day of a merged row always read from the shotgun record.
MergedDay_ShotgunOnly(sg, from_with_date, d) == _date_str(sg)

\* line 145: the day of a merged row
MergedDay(sg, from_with_date, d) == IF from_with_date THEN _date_str(sg) ELSE d

\* A merged row whose venue resolves the shotgun side (venue_name, city)
\* before the dice side.
MergedRow_SideBySide(sg, dc, from_with_date, d) ==
  [event_name |-> Or(sg.event_name, Or(dc.event_name, <<>>)),
   event_datetime_local |-> MergedDay(sg, from_with_date, d),
   artist |-> Or(sg.artist_name, Or(dc.artist_name, <<>>)),
   venue |-> Or(sg.venue_name, Or(sg.city, Or(dc.venue_name, Or(dc.city, <<>>)))),
   shotgun_tickets_sold |-> sg.tickets_sold_total,
   dice_tickets_sold |-> dc.tickets_sold_total,
   shotgun_event_id |-> sg.event_id_provider,
   dice_event_id |-> dc.event_id_provider]

\* lines 135-156: the row of a matched pair
MergedRow(sg, dc, from_with_date, d) ==
  [event_name |-> Or(sg.event_name, Or(dc.event_name, <<>>)),
   event_datetime_local |-> MergedDay(sg, from_with_date, d),
   artist |-> Or(sg.artist_name, Or(dc.artist_name, <<>>)),
   venue |-> Or(sg.venue_name, Or(dc.venue_name, Or(sg.city, Or(dc.city, <<>>)))),
   shotgun_tickets_sold |-> sg.tickets_sold_total,
   dice_tickets_sold |-> dc.tickets_sold_total,
   shotgun_event_id |-> sg.event_id_provider,
   dice_event_id |-> dc.event_id_provider]

\* lines 163-171: the row of an unmatched shotgun event
ShotgunRow(sg) ==
  [event_name |-> Or(sg.event_name, <<>>),
   event_datetime_local |-> _date_str(sg),
   artist |-> Or(sg.artist_name, <<>>),
   venue |-> Or(sg.venue_name, Or(sg.city, <<>>)),
   shotgun_tickets_sold |-> sg.tickets_sold_total,
   dice_tickets_sold |-> NoneInt,
   shotgun_event_id |-> sg.event_id_provider]

\* A dice singleton row that also carries an (empty) shotgun id key.
DiceRow_WithShotgunId(dc) ==
  [event_name |-> Or(dc.event_name, <<>>),
   event_datetime_local |-> _date_str(dc),
   artist |-> Or(dc.artist_name, <<>>),
   venue |-> Or(dc.venue_name, Or(dc.city, <<>>)),
   shotgun_tickets_sold |-> NoneInt,
   dice_tickets_sold |-> dc.tickets_sold_total,
   shotgun_event_id |-> "",
   dice_event_id |-> dc.event_id_provider]

\* lines 178-186: the row of an unmatched dice event
DiceRow(dc) ==
  [event_name |-> Or(dc.event_name, <<>>),
   event_datetime_local |-> _date_str(dc),
   artist |-> Or(dc.artist_name, <<>>),
   venue |-> Or(dc.venue_name, Or(dc.city, <<>>)),
   shotgun_tickets_sold |-> NoneInt,
   dice_tickets_sold |-> dc.tickets_sold_total,
   dice_event_id |-> dc.event_id_provider]

\* the records a row was built from (0: none of that side) and its rank in
\* the order of construction
Source(sgIdx, dcIdx) == [sg |-> sgIdx, dc |-> dcIdx, seq |-> Len(rows) + 1]

\* SkipUndatedDice that tries the undated shotgun records for a dice event
\* without date instead of skipping it.
SkipUndatedDice_TryFallback ==
  /\ pc = "match"
  /\ i <= Len(dice_events)
  /\ ~Truthy(_date_str(dice_events[i]))
  /\ \E best \in {Best(dice_events[i])} :
       IF best.sg = 0
       THEN UNCHANGED <<used_sg, used_dc, rows, src>>
       ELSE /\ used_sg' = used_sg \union {shotgun_events[best.sg].event_id_provider}
            /\ used_dc' = used_dc \union {dice_events[i].event_id_provider}
            /\ rows' = Append(rows, MergedRow(shotgun_events[best.sg], dice_events[i],
                                              best.from_with_date, <<>>))
            /\ src' = Append(src, Source(best.sg, i))
  /\ i' = i + 1
  /\ UNCHANGED <<shotgun_events, dice_events, sg_by_day, sg_no_date, pc>>
  /\ UNCHANGED notCe

\* lines 104-107: a dice event without date is skipped by the matching loop
SkipUndatedDice ==
  /\ pc = "match"
  /\ i <= Len(dice_events)
  /\ ~Truthy(_date_str(dice_events[i]))
  /\ i' = i + 1
  /\ UNCHANGED <<shotgun_events, dice_events, sg_by_day, sg_no_date,
                 used_sg, used_dc, rows, src, pc>>
  /\ UNCHANGED notCe

\* MergeDice without the "if not d: continue" of lines 106-107.
MergeDice_NoDateTest ==
  /\ pc = "match"
  /\ i <= Len(dice_events)
  /\ \E best \in {Best(dice_events[i])} :
     LET dc == dice_events[i]
         d == _date_str(dc)
     IN /\ best.sg # 0
        /\ LET sg == shotgun_events[best.sg]
           IN /\ used_sg' = used_sg \union {sg.event_id_provider}
              /\ used_dc' = used_dc \union {dc.event_id_provider}
              /\ rows' = Append(rows, MergedRow(sg, dc, best.from_with_date, d))
              /\ src' = Append(src, Source(best.sg, i))
  /\ i' = i + 1
  /\ UNCHANGED <<shotgun_events, dice_events, sg_by_day, sg_no_date, pc>>
  /\ UNCHANGED notCe

\* lines 104-156 with best found: the pair is consumed and its row appended
MergeDice ==
  /\ pc = "match"
  /\ i <= Len(dice_events)
  /\ \E best \in {Best(dice_events[i])} :
     LET dc == dice_events[i]
         d == _date_str(dc)
     IN /\ Truthy(d)
        /\ best.sg # 0
        /\ LET sg == shotgun_events[best.sg]
           IN /\ used_sg' = used_sg \union {sg.event_id_provider}
              /\ used_dc' = used_dc \union {dc.event_id_provider}
              /\ rows' = Append(rows, MergedRow(sg, dc, best.from_with_date, d))
              /\ src' = Append(src, Source(best.sg, i))
  /\ i' = i + 1
  /\ UNCHANGED <<shotgun_events, dice_events, sg_by_day, sg_no_date, pc>>
  /\ UNCHANGED notCe

\* lines 104-130 with best None: the dice event is left for the leftover pass
NoMatchDice ==
  /\ pc = "match"
  /\ i <= Len(dice_events)
  /\ Truthy(_date_str(dice_events[i]))
  /\ Best(dice_events[i]).sg = 0
  /\ i' = i + 1
  /\ UNCHANGED <<shotgun_events, dice_events, sg_by_day, sg_no_date,
                 used_sg, used_dc, rows, src, pc>>
  /\ UNCHANGED notCe

\* lines 158-159: the matching loop is exhausted
StartShotgunLeftovers ==
  /\ pc = "match"
  /\ i > Len(dice_events)
  /\ pc' = "left_sg"
  /\ i' = 1
  /\ UNCHANGED <<shotgun_events, dice_events, sg_by_day, sg_no_date,
                 used_sg, used_dc, rows, src>>
  /\ UNCHANGED notCe

\* line 159: the list the shotgun leftover loop runs over
SgAll == DictValues(sg_by_day) \o sg_no_date

\* lines 159-171: one iteration of the shotgun leftover loop
LeftoverShotgun ==
  /\ pc = "left_sg"
  /\ i <= Len(SgAll)
  /\ LET k == SgAll[i].sg
         sg == shotgun_events[k]
     IN IF sg.event_id_provider \in used_sg
        THEN UNCHANGED <<rows, src>>
        ELSE /\ rows' = Append(rows, ShotgunRow(sg))
             /\ src' = Append(src, Source(k, 0))
  /\ i' = i + 1
  /\ UNCHANGED <<shotgun_events, dice_events, sg_by_day, sg_no_date,
                 used_sg, used_dc, pc>>
  /\ UNCHANGED notCe

\* lines 173-174: the shotgun leftover loop is exhausted
StartDiceLeftovers ==
  /\ pc = "left_sg"
  /\ i > Len(SgAll)
  /\ pc' = "left_dc"
  /\ i' = 1
  /\ UNCHANGED <<shotgun_events, dice_events, sg_by_day, sg_no_date,
                 used_sg, used_dc, rows, src>>
  /\ UNCHANGED notCe

\* lines 174-186: one iteration of the dice leftover loop
LeftoverDice ==
  /\ pc = "left_dc"
  /\ i <= Len(dice_events)
  /\ LET dc == dice_events[i]
     IN IF dc.event_id_provider \in used_dc
        THEN UNCHANGED <<rows, src>>
        ELSE /\ rows' = Append(rows, DiceRow(dc))
             /\ src' = Append(src, Source(0, i))
  /\ i' = i + 1
  /\ UNCHANGED <<shotgun_events, dice_events, sg_by_day, sg_no_date,
                 used_sg, used_dc, pc>>
  /\ UNCHANGED notCe

\* lines 188-189: rows.sort(key=_sort_key); return rows
SortAndReturn ==
  /\ pc = "left_dc"
  /\ i > Len(dice_events)
  /\ LET perm == SortPerm(rows, Len(rows))
     IN /\ rows' = Permute(rows, perm)
        /\ src' = Permute(src, perm)
  /\ pc' = "done"
  /\ UNCHANGED <<shotgun_events, dice_events, sg_by_day, sg_no_date,
                 used_sg, used_dc, i>>
  /\ UNCHANGED notCe

Next ==
  \/ IndexShotgun
  \/ StartMatching
  \/ SkipUndatedDice
  \/ MergeDice
  \/ NoMatchDice
  \/ StartShotgunLeftovers
  \/ LeftoverShotgun
  \/ StartDiceLeftovers
  \/ LeftoverDice
  \/ SortAndReturn

Spec == Init /\ [][Next]_vars

\* ------------------------------------------------------------------------
\* Properties of consolidate_events
\* ------------------------------------------------------------------------

Done == pc = "done"

RowIdx == 1..Len(rows)

IsMerged(k) == src[k].sg # 0 /\ src[k].dc # 0

MergedRows == {k \in RowIdx : IsMerged(k)}

\* the rows that represent shotgun record a / dice record b
RowsOfSg(a) == {k \in RowIdx : src[k].sg = a}
RowsOfDc(b) == {k \in RowIdx : src[k].dc = b}

HasDate(e) == e.event_datetime_local # NoDate

\* C1: completeness.  When consolidate_events returns, every shotgun record
\* and every dice record is represented in exactly one row, and the number
\* of rows is len(A) + len(B) - (number of merged pairs).
C1_Completeness ==
  Done =>
    /\ \A a \in 1..Len(shotgun_events) : Cardinality(RowsOfSg(a)) = 1
    /\ \A b \in 1..Len(dice_events) : Cardinality(RowsOfDc(b)) = 1
    /\ Len(rows) = Len(shotgun_events) + Len(dice_events) - Cardinality(MergedRows)

\* C2 (as stated): no event_id_provider of a shotgun record and none of a
\* dice record appears in more than one row.
C2_IdAtMostOnce ==
  \A k1, k2 \in RowIdx :
    k1 # k2 =>
      /\ ~ ( /\ "shotgun_event_id" \in DOMAIN rows[k1]
             /\ "shotgun_event_id" \in DOMAIN rows[k2]
             /\ rows[k1].shotgun_event_id = rows[k2].shotgun_event_id )
      /\ ~ ( /\ "dice_event_id" \in DOMAIN rows[k1]
             /\ "dice_event_id" \in DOMAIN rows[k2]
             /\ rows[k1].dice_event_id = rows[k2].dice_event_id )

DistinctIds(events) ==
  \A a, b \in 1..Len(events) :
    a # b => events[a].event_id_provider # events[b].event_id_provider

\* C2 (amended): at every point of the run no input record is represented
\* in more than one row (a record is never matched twice); and when the ids
\* are distinct within each side, no id appears in more than one row.
C2_RecordAtMostOnce ==
  /\ \A a \in 1..Len(shotgun_events) : Cardinality(RowsOfSg(a)) <= 1
  /\ \A b \in 1..Len(dice_events) : Cardinality(RowsOfDc(b)) <= 1
  /\ (DistinctIds(shotgun_events) /\ DistinctIds(dice_events)) => C2_IdAtMostOnce

\* C2 witness: the run is over, one shotgun record was merged with a dice
\* record, and a later dated dice record that shares a token with that same
\* shotgun record (same day, or the shotgun record undated) was left alone.
C2_Witness ==
  /\ Done
  /\ \E k \in MergedRows : \E j \in RowIdx :
       /\ src[j].sg = 0
       /\ src[j].dc > src[k].dc
       /\ LET sg == shotgun_events[src[k].sg]
              dc == dice_events[src[j].dc]
          IN /\ HasDate(dc)
             /\ (~HasDate(sg) \/ _date_str(sg) = _date_str(dc))
             /\ _artist_tokens(sg.artist_name, sg.event_name)
                  \cap _artist_tokens(dc.artist_name, dc.event_name) # {}

\* C3 (as stated): a record of either side that has no date is never matched
\* and, when the run is over, is the subject of one singleton row.
C3_UndatedNeverMatched ==
  /\ \A k \in MergedRows :
       /\ HasDate(shotgun_events[src[k].sg])
       /\ HasDate(dice_events[src[k].dc])
  /\ Done =>
       /\ \A a \in 1..Len(shotgun_events) :
            ~HasDate(shotgun_events[a]) => Cardinality(RowsOfSg(a)) = 1
       /\ \A b \in 1..Len(dice_events) :
            ~HasDate(dice_events[b]) => Cardinality(RowsOfDc(b)) = 1

\* C3 (amended): a dice record without date is never matched.  A shotgun
\* record without date is matched only with a dated dice record that shares
\* a token with it, and the merged row then carries the dice day.  When the
\* run is over, an undated record that was not matched is the subject of one
\* singleton row if its id is not the id of a matched record of its side,
\* and of no row otherwise.
C3_UndatedFallThrough ==
  /\ \A k \in MergedRows :
       LET sg == shotgun_events[src[k].sg]
           dc == dice_events[src[k].dc]
       IN /\ HasDate(dc)
          /\ ~HasDate(sg) =>
               /\ _artist_tokens(sg.artist_name, sg.event_name)
                    \cap _artist_tokens(dc.artist_name, dc.event_name) # {}
               /\ rows[k].event_datetime_local = IsoDate(dc.event_datetime_local)
  /\ Done =>
       /\ \A a \in 1..Len(shotgun_events) :
            LET sg == shotgun_events[a]
            IN (~HasDate(sg) /\ RowsOfSg(a) \cap MergedRows = {}) =>
                 Cardinality(RowsOfSg(a)) =
                   (IF sg.event_id_provider \in used_sg THEN 0 ELSE 1)
       /\ \A b \in 1..Len(dice_events) :
            LET dc == dice_events[b]
            IN ~HasDate(dc) =>
                 /\ RowsOfDc(b) \cap MergedRows = {}
                 /\ Cardinality(RowsOfDc(b)) =
                      (IF dc.event_id_provider \in used_dc THEN 0 ELSE 1)

\* C3 witness: the run is over; an undated dice record came out as a
\* singleton row and an undated shotgun record was merged by the fallback.
C3_Witness ==
  /\ Done
  /\ \E k \in RowIdx :
       src[k].sg = 0 /\ ~HasDate(dice_events[src[k].dc])
  /\ \E k \in MergedRows : ~HasDate(shotgun_events[src[k].sg])

\* C4: example scenario 2.  With A = [Artist X, 2025-10-10] and
\* B = [Artist Y, 2025-10-10] the result is two singleton rows.
C4_Scenario2 ==
  (Done /\ shotgun_events = <<SgArtistX>> /\ dice_events = <<DcArtistY>>) =>
    /\ Len(rows) = 2
    /\ MergedRows = {}

\* the first non-empty text of a sequence of optional texts, else ""
RECURSIVE FirstTruthy(_)
FirstTruthy(xs) ==
  IF xs = <<>> THEN <<>>
  ELSE IF Head(xs) # None /\ Len(Head(xs)) > 0 THEN Head(xs)
  ELSE FirstTruthy(Tail(xs))

\* the parts of a merged row that C6 states without reserve
MergeCarries(k, sg, dc) ==
  /\ rows[k].shotgun_tickets_sold = sg.tickets_sold_total
  /\ rows[k].dice_tickets_sold = dc.tickets_sold_total
  /\ rows[k].shotgun_event_id = sg.event_id_provider
  /\ rows[k].dice_event_id = dc.event_id_provider
  /\ rows[k].event_name = FirstTruthy(<<sg.event_name, dc.event_name>>)
  /\ rows[k].artist = FirstTruthy(<<sg.artist_name, dc.artist_name>>)

\* C6 (as stated): a merged row carries both ticket counts and both ids; its
\* event_name, artist and venue are the shotgun record's value when that is
\* non-empty and otherwise the dice record's value.
C6_MergeContent ==
  \A k \in MergedRows :
    LET sg == shotgun_events[src[k].sg]
        dc == dice_events[src[k].dc]
    IN /\ MergeCarries(k, sg, dc)
       /\ rows[k].venue = FirstTruthy(<<sg.venue_name, dc.venue_name>>)

\* C6 (amended): a merged row carries both ticket counts and both ids; its
\* event_name and artist are the shotgun record's value when that is
\* non-empty and otherwise the dice record's; its venue is the first
\* non-empty of shotgun venue_name, dice venue_name, shotgun city, dice city.
C6_MergeContentVenueChain ==
  \A k \in MergedRows :
    LET sg == shotgun_events[src[k].sg]
        dc == dice_events[src[k].dc]
    IN /\ MergeCarries(k, sg, dc)
       /\ rows[k].venue =
            FirstTruthy(<<sg.venue_name, dc.venue_name, sg.city, dc.city>>)

\* C6 witness: the run is over and a merged row took its artist and its
\* venue from the dice record although the shotgun record has a city.
C6_Witness ==
  /\ Done
  /\ \E k \in MergedRows :
       LET sg == shotgun_events[src[k].sg]
           dc == dice_events[src[k].dc]
       IN /\ ~Truthy(sg.venue_name) /\ Truthy(sg.city)
          /\ rows[k].venue = dc.venue_name
          /\ rows[k].artist = dc.artist_name

\* C7: a singleton row has the other side's ticket count None and no id key
\* of the other side; a row has both id keys exactly when it is a merged
\* pair; with no shotgun record every dice record has one singleton row with
\* shotgun_tickets_sold None and its own dice_tickets_sold.
C7_SingletonShape ==
  Done =>
    /\ \A k \in RowIdx :
         /\ src[k].dc = 0 =>
              /\ rows[k].dice_tickets_sold = NoneInt
              /\ "dice_event_id" \notin DOMAIN rows[k]
         /\ src[k].sg = 0 =>
              /\ rows[k].shotgun_tickets_sold = NoneInt
              /\ "shotgun_event_id" \notin DOMAIN rows[k]
         /\ ({"shotgun_event_id", "dice_event_id"} \subseteq DOMAIN rows[k])
              <=> IsMerged(k)
    /\ shotgun_events = <<>> =>
         \A b \in 1..Len(dice_events) :
           /\ Cardinality(RowsOfDc(b)) = 1
           /\ \A k \in RowsOfDc(b) :
                /\ rows[k].shotgun_tickets_sold = NoneInt
                /\ rows[k].dice_tickets_sold = dice_events[b].tickets_sold_total

\* C7 witness: the run is over with a merged row, a shotgun singleton and a
\* dice singleton.
C7_Witness ==
  /\ Done
  /\ MergedRows # {}
  /\ \E k \in RowIdx : src[k].dc = 0
  /\ \E k \in RowIdx : src[k].sg = 0

\* C8: the date of a merged row is the dice record's day when the shotgun
\* record has no date and the shotgun record's day when it has one, in the
\* form YYYY-MM-DD.
C8_DateInheritance ==
  \A k \in MergedRows :
    LET sg == shotgun_events[src[k].sg]
        dc == dice_events[src[k].dc]
        day == rows[k].event_datetime_local
    IN /\ day = IsoDate(IF HasDate(sg) THEN sg.event_datetime_local
                        ELSE dc.event_datetime_local)
       /\ Len(day) = 10 /\ day[5] = "-" /\ day[8] = "-"

\* C8 witness: the run is over with one merged row whose shotgun record has
\* no date and one whose shotgun record has a date.
C8_Witness ==
  /\ Done
  /\ \E k \in MergedRows : ~HasDate(shotgun_events[src[k].sg])
  /\ \E k \in MergedRows : HasDate(shotgun_events[src[k].sg])

\* the sort key of row k read off the row, and the order on such keys
RowKey(k) == <<rows[k].event_datetime_local, Lower(rows[k].event_name)>>

TupleLess(a, b) == StrLess(a[1], b[1]) \/ (a[1] = b[1] /\ StrLess(a[2], b[2]))

\* 1: merged row, 2: shotgun leftover, 3: dice leftover
Rank(k) == IF IsMerged(k) THEN 1 ELSE IF src[k].sg # 0 THEN 2 ELSE 3

\* C9: the returned rows are ascending by (date string, lower-cased
\* event_name); rows with an empty date come first; rows of equal key keep
\* their order of construction (merged, shotgun leftovers, dice leftovers).
C9_OutputOrder ==
  Done =>
    \A k1, k2 \in RowIdx :
      k1 < k2 =>
        /\ ~TupleLess(RowKey(k2), RowKey(k1))
        /\ rows[k2].event_datetime_local = <<>> =>
             rows[k1].event_datetime_local = <<>>
        /\ RowKey(k1) = RowKey(k2) =>
             /\ src[k1].seq < src[k2].seq
             /\ Rank(k1) <= Rank(k2)

\* C9 witness: the run is over; a shotgun leftover and a dice leftover have
\* the same key with an empty date, and a dated row follows them.
C9_Witness ==
  /\ Done
  /\ \E k1, k2, k3 \in RowIdx :
       /\ k1 < k2 /\ k2 < k3
       /\ RowKey(k1) = RowKey(k2)
       /\ Rank(k1) = 2 /\ Rank(k2) = 3
       /\ rows[k1].event_datetime_local = <<>>
       /\ rows[k3].event_datetime_local # <<>>

\* the dice record the matching loop is about to process has a date and
\* shares a token with a same-day shotgun record whose id is not used
PartialBillCandidate ==
  /\ pc = "match"
  /\ i <= Len(dice_events)
  /\ HasDate(dice_events[i])
  /\ \E a \in 1..Len(shotgun_events) :
       LET sg == shotgun_events[a]
           dc == dice_events[i]
       IN /\ HasDate(sg)
          /\ _date_str(sg) = _date_str(dc)
          /\ sg.event_id_provider \notin used_sg
          /\ _artist_tokens(sg.artist_name, sg.event_name)
               \cap _artist_tokens(dc.artist_name, dc.event_name) # {}

\* C10: a dated dice record that shares at least one artist token with a
\* not-yet-used shotgun record of the same day is merged, by the step that
\* processes it, with some shotgun record.
C10_PartialBill ==
  [][ PartialBillCandidate =>
        /\ Len(rows') = Len(rows) + 1
        /\ src'[Len(rows')].dc = i
        /\ src'[Len(rows')].sg # 0 ]_vars

\* C10 witness: the run is over and a dice record with a multi-artist bill
\* was merged with a same-day shotgun record that has only one of its
\* tokens.
C10_Witness ==
  /\ Done
  /\ \E k \in MergedRows :
       LET sg == shotgun_events[src[k].sg]
           dc == dice_events[src[k].dc]
           st == _artist_tokens(sg.artist_name, sg.event_name)
           dt == _artist_tokens(dc.artist_name, dc.event_name)
       IN /\ HasDate(sg)
          /\ Cardinality(dt) >= 2
          /\ Cardinality(st \cap dt) = 1

\* ------------------------------------------------------------------------
\* Name normalisation of the matcher (matching.py)
\* ------------------------------------------------------------------------

STOPWORDS == { <<"l","i","v","e">>, <<"c","o","n","c","e","r","t">>, <<"t","o","u","r">> }

\* re.sub(r"[\W_]+", " ", s): every maximal run of non-word characters and
\* underscores becomes one space.
RECURSIVE SubNonWord(_)
SubNonWord(s) ==
  IF s = <<>> THEN <<>>
  ELSE IF ~IsWord(Head(s)) \/ Head(s) = "_"
       THEN IF Len(s) > 1 /\ (~IsWord(s[2]) \/ s[2] = "_")
            THEN SubNonWord(Tail(s))
            ELSE <<" ">> \o SubNonWord(Tail(s))
       ELSE <<Head(s)>> \o SubNonWord(Tail(s))

\* " ".join(tokens)
RECURSIVE JoinSpace(_)
JoinSpace(tokens) ==
  IF tokens = <<>> THEN <<>>
  ELSE IF Len(tokens) = 1 THEN Head(tokens)
  ELSE Head(tokens) \o <<" ">> \o JoinSpace(Tail(tokens))

\* The text is lower-cased BEFORE the compatibility decomposition.
_norm_name(s) ==
  LET s1 == Lower(IF Truthy(s) THEN s ELSE <<>>)
      s2 == _strip_accents(s1)
      s3 == SubNonWord(s2)
      tokens == SelectSeq(SplitSpace(s3, <<>>),
                          LAMBDA t : t # <<>> /\ t \notin STOPWORDS)
  IN JoinSpace(tokens)

\* ------------------------------------------------------------------------
\* Repeated normalisation of one text
\* ------------------------------------------------------------------------

MaxTextLen == 2

MaxApply == 2

NormAlphabet == {"B", "e", " ", "_", "U+00C9", "U+2122"}

RECURSIVE TextsUpTo(_, _)
TextsUpTo(A, n) ==
  IF n = 0 THEN {<<>>}
  ELSE LET shorter == TextsUpTo(A, n - 1)
       IN shorter \union {Append(t, c) : t \in shorter, c \in A}

NormNames == {
  None,
  <<"B","a","n","d","U+2122"," ","L","i","v","e">>,
  <<"D","A","F","T"," ","P","U","N","K"," ","L","I","V","E">>,
  <<" ","t","o","u","r","_","C","U+00E9","l","i","n","e","\t"," ">>,
  <<"L","i","v","e">> }

NormInputs == TextsUpTo(NormAlphabet, MaxTextLen) \union NormNames

InitNorm ==
  /\ nx \in NormInputs
  /\ nb = <<>>
  /\ nn = <<>>
  /\ CeIdle
  /\ MergeIdle
  /\ CliIdle
  /\ SheetIdle
  /\ SchemaIdle
  /\ AdapterIdle

\* the text the next application works on
Last(results, x) == IF results = <<>> THEN x ELSE results[Len(results)]

\* one more application of _norm_basic to its own previous result
ApplyNormBasic ==
  /\ Len(nb) < MaxApply
  /\ nb' = Append(nb, _norm_basic(Last(nb, nx)))
  /\ UNCHANGED <<nx, nn>>
  /\ UNCHANGED notNorm

\* one more application of _norm_name to its own previous result
ApplyNormName ==
  /\ Len(nn) < MaxApply
  /\ nn' = Append(nn, _norm_name(Last(nn, nx)))
  /\ UNCHANGED <<nx, nb>>
  /\ UNCHANGED notNorm

NextNorm == ApplyNormBasic \/ ApplyNormName

SpecNorm == InitNorm /\ [][NextNorm]_vars

\* C13: idempotent normalisation.  For every text, the second application of
\* _norm_basic returns what the first returned, and the second application
\* of _norm_name returns what the first returned.
C13_Idempotent ==
  /\ Len(nb) >= 2 => nb[2] = nb[1]
  /\ Len(nn) >= 2 => nn[2] = nn[1]

\* ------------------------------------------------------------------------
\* merge_shotgun_dice (matching.py)
\* ------------------------------------------------------------------------

\* _round5(dt): the minute rounded down to a multiple of five
_round5(dt) == <<dt[1], dt[2], dt[3], dt[4], (dt[5] \div 5) * 5>>

\* dt.strftime("%Y-%m-%dT%H:%M"): the C library's %Y writes the year without
\* padding (year 999 gives "999-01-02T03:00"), unlike isoformat()
Strftime(dt) ==
  Digits(dt[1]) \o <<"-">> \o Pad(dt[2], 2) \o <<"-">> \o Pad(dt[3], 2)
    \o <<"T">> \o Pad(dt[4], 2) \o <<":">> \o Pad(dt[5], 2)

canonical_key(name, dt) ==
  LET ts == IF dt # NoDate THEN Strftime(_round5(dt)) ELSE <<"n","a">>
  IN _norm_name(name) \o <<"|">> \o ts

\* length of the common prefix of a[ai..ahi] and b[bj..bhi]
RECURSIVE MatchLen(_, _, _, _, _, _)
MatchLen(a, b, ai, bj, ahi, bhi) ==
  IF ai <= ahi /\ bj <= bhi /\ a[ai] = b[bj]
  THEN 1 + MatchLen(a, b, ai + 1, bj + 1, ahi, bhi)
  ELSE 0

\* SequenceMatcher.find_longest_match(alo, ahi, blo, bhi) without junk: the
\* longest common block of a[alo..ahi] and b[blo..bhi]; of the longest ones
\* the one that starts earliest in a, then earliest in b.
FindLongestMatch(a, b, alo, ahi, blo, bhi) ==
  LET starts == (alo..ahi) \X (blo..bhi)
      len == [p \in starts |-> MatchLen(a, b, p[1], p[2], ahi, bhi)]
      size == CHOOSE k \in {len[p] : p \in starts} :
                \A p \in starts : len[p] <= k
      besti == CHOOSE x \in alo..ahi :
                 /\ \E y \in blo..bhi : len[<<x, y>>] = size
                 /\ \A p \in starts : len[p] = size => x <= p[1]
      bestj == CHOOSE y \in blo..bhi :
                 /\ len[<<besti, y>>] = size
                 /\ \A z \in blo..bhi : len[<<besti, z>>] = size => y <= z
  IN IF size = 0 THEN <<alo, blo, 0>> ELSE <<besti, bestj, size>>

\* SequenceMatcher.get_matching_blocks(): the total size of the blocks found
\* by taking the longest match and recursing to its left and to its right.
RECURSIVE Matches(_, _, _, _, _, _)
Matches(a, b, alo, ahi, blo, bhi) ==
  IF alo > ahi \/ blo > bhi THEN 0
  ELSE LET m == FindLongestMatch(a, b, alo, ahi, blo, bhi)
       IN IF m[3] = 0 THEN 0
          ELSE m[3] + Matches(a, b, alo, m[1] - 1, blo, m[2] - 1)
                    + Matches(a, b, m[1] + m[3], ahi, m[2] + m[3], bhi)

\* SequenceMatcher.ratio() = 2.0 * matches / length, 1.0 for two empty
\* texts; the float is kept as the exact fraction <<numerator, denominator>>.
Ratio(a, b) ==
  IF Len(a) + Len(b) = 0 THEN <<1, 1>>
  ELSE <<2 * Matches(a, b, 1, Len(a), 1, Len(b)), Len(a) + Len(b)>>

_sim(a, b) == Ratio(_norm_name(a), _norm_name(b))

\* score > best_score on fractions
ScoreGreater(x, y) == x[1] * y[2] > y[1] * x[2]

\* A threshold test that lets the low scores through instead of the high ones.
ScoreAtLeast_Inverted(score, threshold) == score[1] * 100 <= threshold * score[2]

\* score >= name_threshold, the threshold in hundredths
ScoreAtLeast(score, threshold) == score[1] * 100 >= threshold * score[2]

\* minutes since midnight; the difference of two datetimes is only taken
\* after the same-day test of line 70
MinuteOfDay(dt) == dt[4] * 60 + dt[5]

Abs(n) == IF n < 0 THEN -n ELSE n

SameDate(a, b) == a[1] = b[1] /\ a[2] = b[2] /\ a[3] = b[3]

\* SkipPair that also skips a pair exactly hour_tolerance_min minutes apart.
SkipPair_AtTolerance(sv, dv, tol) ==
  LET sdt == sv.event_datetime_local
      ddt == dv.event_datetime_local
  IN \/ sdt # NoDate /\ ddt # NoDate /\ ~SameDate(sdt, ddt)
     \/ sdt # NoDate /\ ddt # NoDate
          /\ Abs(MinuteOfDay(sdt) - MinuteOfDay(ddt)) * 60 >= tol * 60

\* lines 70-75: the two "continue" tests of the inner loop
SkipPair(sv, dv, tol) ==
  LET sdt == sv.event_datetime_local
      ddt == dv.event_datetime_local
  IN \/ sdt # NoDate /\ ddt # NoDate /\ ~SameDate(sdt, ddt)
     \/ sdt # NoDate /\ ddt # NoDate
          /\ Abs(MinuteOfDay(sdt) - MinuteOfDay(ddt)) * 60 > tol * 60

NoKey == <<>>

\* lines 66-79: the inner loop over sg_index.items(), from the entries still
\* to visit and the best (key, score) so far
RECURSIVE ScanIndex(_, _, _, _, _, _, _)
ScanIndex(entries, sgs, dv, tol, thr, best_key, best_score) ==
  IF entries = <<>> THEN best_key
  ELSE LET key == Head(entries).key
           sv == sgs[Head(entries).val]
           score == _sim(sv.event_name, dv.event_name)
       IN IF SkipPair(sv, dv, tol)
          THEN ScanIndex(Tail(entries), sgs, dv, tol, thr, best_key, best_score)
          ELSE IF ScoreAtLeast(score, thr) /\ ScoreGreater(score, best_score)
               THEN ScanIndex(Tail(entries), sgs, dv, tol, thr, key, score)
               ELSE ScanIndex(Tail(entries), sgs, dv, tol, thr, best_key, best_score)

BestKey(index, sgs, dv, tol, thr) ==
  ScanIndex(index, sgs, dv, tol, thr, NoKey, <<0, 1>>)

\* d[key] = val on an insertion-ordered dict: a known key keeps its position
DictPut(d, key, val) ==
  IF \E k \in 1..Len(d) : d[k].key = key
  THEN [k \in 1..Len(d) |-> IF d[k].key = key THEN [key |-> key, val |-> val] ELSE d[k]]
  ELSE Append(d, [key |-> key, val |-> val])

\* d[key]
DictAt(d, key) == d[CHOOSE k \in 1..Len(d) : d[k].key = key].val

\* the fields of ConsolidatedRow that the merge computes (scrape_ts_utc and
\* ingestion_run_id are copied from the record and play no part in it)
ConsolidatedRow(key, name, dt, sg_sold, dc_sold) ==
  [canonical_event_key |-> key, event_name |-> name,
   event_datetime_local |-> dt, timezone |-> "Europe/Paris",
   tickets_sold_total_shotgun |-> sg_sold,
   tickets_sold_total_dice |-> dc_sold]

MaxMergeSg == 2
MaxMergeDc == 2

MergeSgPool == {
  Event("daft-punk-1", <<"D","a","f","t"," ","P","u","n","k">>, None, None, None,
        <<2025, 10, 10, 20, 0>>, 500),
  SgArtistX,
  Event("daft-punk-7", <<"D","a","f","t"," ","P","u","n","k"," ","L","i","v","e">>, None, None, None,
        <<2025, 10, 10, 20, 2>>, 20),
  Event("band-8", <<"B","a","n","d">>, None, None, None, NoDate, 120) }

MergeDcPool == {
  Event("d1", <<"D","A","F","T"," ","P","U","N","K"," ","L","I","V","E">>, None, None, None,
        <<2025, 10, 10, 20, 0>>, 480),
  DcArtistY,
  Event("d7", <<"D","a","f","t"," ","P","u","n","k">>, None, None, None,
        <<2025, 10, 10, 20, 25>>, 33),
  Event("d8", <<"B","a","n","d">>, None, None, None, <<2025, 11, 1, 21, 0>>, 75) }

\* name_threshold values, in hundredths (the default is 0.90)
ThresholdPool == {50, 90, 100}

\* hour_tolerance_min values (the default is 30)
TolerancePool == {0, 30}

InitMerge ==
  /\ shotgun \in ListsUpTo(MergeSgPool, MaxMergeSg)
  /\ dice \in ListsUpTo(MergeDcPool, MaxMergeDc)
  /\ hour_tolerance_min \in TolerancePool
  /\ name_threshold \in ThresholdPool
  /\ sg_index = <<>>
  /\ out = <<>>
  /\ osrc = <<>>
  /\ mpc = "index"
  /\ mi = 1
  /\ CeIdle
  /\ NormIdle
  /\ CliIdle
  /\ SheetIdle
  /\ SchemaIdle
  /\ AdapterIdle

\* lines 52-62: one iteration of the indexing loop
IndexShotgunKey ==
  /\ mpc = "index"
  /\ mi <= Len(shotgun)
  /\ LET ev == shotgun[mi]
         key == canonical_key(ev.event_name, ev.event_datetime_local)
     IN /\ sg_index' = DictPut(sg_index, key, mi)
        /\ out' = DictPut(out, key,
                    ConsolidatedRow(key, ev.event_name, ev.event_datetime_local,
                                    ev.tickets_sold_total, NoneInt))
        /\ osrc' = DictPut(osrc, key, [sg |-> mi, dc |-> <<>>])
  /\ mi' = mi + 1
  /\ UNCHANGED <<shotgun, dice, hour_tolerance_min, name_threshold, mpc>>
  /\ UNCHANGED notMerge

\* line 65: the indexing loop is over, the loop over dice starts
StartDiceLoop ==
  /\ mpc = "index"
  /\ mi > Len(shotgun)
  /\ mpc' = "dice"
  /\ mi' = 1
  /\ UNCHANGED <<shotgun, dice, hour_tolerance_min, name_threshold, sg_index,
                 out, osrc>>
  /\ UNCHANGED notMerge

\* lines 82-86: the row of the best key takes the dice ticket count, and the
\* dice name and date where its own are falsy
AttachedRow(row, dv) ==
  [row EXCEPT !.tickets_sold_total_dice = dv.tickets_sold_total,
              !.event_name = IF ~Truthy(@) THEN dv.event_name ELSE @,
              !.event_datetime_local = IF @ = NoDate
                                       THEN dv.event_datetime_local ELSE @]

\* AttachDice writing the dice ticket count into the shotgun record that the
\* index refers to, instead of into the row.
AttachDice_OnRecord ==
  /\ mpc = "dice"
  /\ mi <= Len(dice)
  /\ \E best_key \in {BestKey(sg_index, shotgun, dice[mi], hour_tolerance_min,
                               name_threshold)} :
       /\ best_key # NoKey
       /\ shotgun' = [shotgun EXCEPT ![DictAt(sg_index, best_key)].tickets_sold_total =
                                       dice[mi].tickets_sold_total]
       /\ osrc' = DictPut(osrc, best_key,
                          [DictAt(osrc, best_key) EXCEPT !.dc = Append(@, mi)])
  /\ mi' = mi + 1
  /\ UNCHANGED <<dice, hour_tolerance_min, name_threshold, sg_index, out, mpc>>
  /\ UNCHANGED notMerge

\* lines 66-86: a dice record with a best key is attached to that row
AttachDice ==
  /\ mpc = "dice"
  /\ mi <= Len(dice)
  /\ \E best_key \in {BestKey(sg_index, shotgun, dice[mi], hour_tolerance_min,
                               name_threshold)} :
       /\ best_key # NoKey
       /\ out' = DictPut(out, best_key, AttachedRow(DictAt(out, best_key), dice[mi]))
       /\ osrc' = DictPut(osrc, best_key,
                          [DictAt(osrc, best_key) EXCEPT !.dc = Append(@, mi)])
  /\ mi' = mi + 1
  /\ UNCHANGED <<shotgun, dice, hour_tolerance_min, name_threshold, sg_index, mpc>>
  /\ UNCHANGED notMerge

\* lines 66-79, 87-97: a dice record without best key gets a row of its own
IndependentDiceRow ==
  /\ mpc = "dice"
  /\ mi <= Len(dice)
  /\ BestKey(sg_index, shotgun, dice[mi], hour_tolerance_min, name_threshold) = NoKey
  /\ \E key \in {canonical_key(dice[mi].event_name, dice[mi].event_datetime_local)} :
       /\ out' = DictPut(out, key,
                   ConsolidatedRow(key, dice[mi].event_name,
                                   dice[mi].event_datetime_local,
                                   NoneInt, dice[mi].tickets_sold_total))
       /\ osrc' = DictPut(osrc, key, [sg |-> 0, dc |-> <<mi>>])
  /\ mi' = mi + 1
  /\ UNCHANGED <<shotgun, dice, hour_tolerance_min, name_threshold, sg_index, mpc>>
  /\ UNCHANGED notMerge

\* line 99: return list(out.values())
ReturnRows ==
  /\ mpc = "dice"
  /\ mi > Len(dice)
  /\ mpc' = "done"
  /\ UNCHANGED <<shotgun, dice, hour_tolerance_min, name_threshold, sg_index,
                 out, osrc, mi>>
  /\ UNCHANGED notMerge

NextMerge ==
  \/ IndexShotgunKey
  \/ StartDiceLoop
  \/ AttachDice
  \/ IndependentDiceRow
  \/ ReturnRows

SpecMerge == InitMerge /\ [][NextMerge]_vars

\* ------------------------------------------------------------------------
\* The two matchers side by side: a run of consolidate_events or a run of
\* merge_shotgun_dice
\* ------------------------------------------------------------------------

InitMatchers == Init \/ InitMerge

NextMatchers == Next \/ NextMerge

SpecMatchers == InitMatchers /\ [][NextMatchers]_vars

\* ------------------------------------------------------------------------
\* Properties of merge_shotgun_dice
\* ------------------------------------------------------------------------

MergeDone == mpc = "done"

OutIdx == 1..Len(out)

\* the dice records of the current run that were attached to a shotgun row
AttachedDice == {d \in 1..Len(dice) : \E k \in OutIdx : osrc[k].val.sg # 0 /\ InSeq(osrc[k].val.dc, d)}

\* C11: no step of consolidate_events and no step of merge_shotgun_dice
\* changes an argument: the two input lists, and so every record in them,
\* are after each step what they were before it.
C11_InputsUnchanged ==
  [][/\ shotgun_events' = shotgun_events
     /\ dice_events' = dice_events
     /\ shotgun' = shotgun
     /\ dice' = dice]_vars

\* C11 witness: merge_shotgun_dice has returned after attaching a dice record
\* to the row of an undated shotgun record, whose date field it filled in
\* place from the dice record; the shotgun record itself still has no date.
C11_Witness ==
  /\ MergeDone
  /\ \E k \in OutIdx :
       /\ osrc[k].val.sg # 0
       /\ osrc[k].val.dc # <<>>
       /\ shotgun[osrc[k].val.sg].event_datetime_local = NoDate
       /\ out[k].val.event_datetime_local # NoDate

\* the dice records of the current arguments that the matcher attaches to a
\* shotgun row when it is called with name_threshold = thr
AttachedWith(thr) ==
  {d \in 1..Len(dice) :
     BestKey(sg_index, shotgun, dice[d], hour_tolerance_min, thr) # NoKey}

\* C12: monotonic threshold.  When merge_shotgun_dice has returned, the
\* number of dice records it attached is at least the number it attaches to
\* the same arguments under any greater name_threshold, and at most the
\* number it attaches under any smaller one.
C12_MonotonicThreshold ==
  MergeDone =>
    \A t \in ThresholdPool :
      /\ t >= name_threshold =>
           Cardinality(AttachedWith(t)) <= Cardinality(AttachedDice)
      /\ t <= name_threshold =>
           Cardinality(AttachedWith(t)) >= Cardinality(AttachedDice)

\* C12 witness: the matcher has returned with name_threshold = 0.90 having
\* attached one dice record and left another one alone that it attaches
\* under the threshold 0.50.
C12_Witness ==
  /\ MergeDone
  /\ name_threshold = 90
  /\ AttachedDice # {}
  /\ \E d \in 1..Len(dice) : d \notin AttachedDice /\ d \in AttachedWith(50)

\* ------------------------------------------------------------------------
\* run_all (cli.py) with the two adapters of REGISTRY
\* ------------------------------------------------------------------------

\* REGISTRY.keys(), in insertion order
REGISTRY == <<"shotgun", "dice">>

Providers == {REGISTRY[k] : k \in 1..Len(REGISTRY)}

\* stop_after_attempt(3) of the @retry decorator of both adapters
MaxAttempts == 3

MaxEvents == 2

\* the first n records of provider p
RECURSIVE FirstN(_, _)
FirstN(p, n) ==
  IF n = 0 THEN <<>>
  ELSE Append(FirstN(p, n - 1), [provider |-> p, event_id_provider |-> n])

\* the lists one adapter can return, of at most MaxEvents records
ProviderResults(p) == {FirstN(p, n) : n \in 0..MaxEvents}

\* a file that has not been written
NoFile == [written |-> FALSE]

\* a task as asyncio.create_task leaves it; rank is its place in the order
\* in which the tasks complete (0 while it has not completed)
NewTask ==
  [st |-> "pending", attempts |-> 0, failed |-> FALSE, result |-> <<>>, rank |-> 0]

\* the place the next task to complete takes
NextRank == Cardinality({q \in Providers : task[q].st = "done"}) + 1

\* line 24: one task per provider has been created, none has run yet; the
\* credentials of Settings are whatever the environment holds ("" when unset)
InitCli ==
  /\ cred \in [Providers -> BOOLEAN]
  /\ task = [p \in Providers |-> NewTask]
  /\ rpc = "gather"
  /\ all_events = <<>>
  /\ preview = NoFile
  /\ csv_rows = NoFile
  /\ exit_status = -1
  /\ shotgun_csv = NoFile
  /\ CeIdle
  /\ NormIdle
  /\ MergeIdle
  /\ SheetIdle
  /\ SchemaIdle
  /\ AdapterIdle

\* the event loop starts the tasks in the order they were created;
\* _run_provider calls the adapter: first attempt (lines 14-15)
StartTask(p) ==
  /\ rpc = "gather"
  /\ task[p].st = "pending"
  /\ \A k \in 1..Len(REGISTRY) :
       (\E m \in k + 1..Len(REGISTRY) : REGISTRY[m] = p) =>
         task[REGISTRY[k]].st # "pending"
  /\ task' = [task EXCEPT ![p].st = "running", ![p].attempts = 1]
  /\ UNCHANGED <<cred, rpc, all_events, preview, csv_rows, exit_status, shotgun_csv>>
  /\ UNCHANGED notCli

\* an attempt raises and @retry runs the adapter again
RetryAttempt(p) ==
  /\ rpc = "gather"
  /\ task[p].st = "running"
  /\ task[p].attempts < MaxAttempts
  /\ task' = [task EXCEPT ![p].attempts = @ + 1]
  /\ UNCHANGED <<cred, rpc, all_events, preview, csv_rows, exit_status, shotgun_csv>>
  /\ UNCHANGED notCli

\* _run_provider without its except clause: the exception of the adapter
\* goes through gather and out of run_all.
GiveUp_Propagates(p) ==
  /\ rpc = "gather"
  /\ task[p].st = "running"
  /\ task[p].attempts = MaxAttempts
  /\ task' = [task EXCEPT ![p].st = "done", ![p].failed = TRUE,
                           ![p].rank = NextRank]
  /\ rpc' = "raised"
  /\ UNCHANGED <<cred, all_events, preview, csv_rows, exit_status, shotgun_csv>>
  /\ UNCHANGED notCli

\* the last attempt raises: @retry raises, _run_provider catches it and
\* returns [] (lines 18-20)
GiveUp(p) ==
  /\ rpc = "gather"
  /\ task[p].st = "running"
  /\ task[p].attempts = MaxAttempts
  /\ task' = [task EXCEPT ![p].st = "done", ![p].failed = TRUE, ![p].result = <<>>,
                           ![p].rank = NextRank]
  /\ UNCHANGED <<cred, rpc, all_events, preview, csv_rows, exit_status, shotgun_csv>>
  /\ UNCHANGED notCli

\* an attempt returns its events and _run_provider returns them (lines 15-17)
AdapterReturns(p) ==
  /\ rpc = "gather"
  /\ task[p].st = "running"
  /\ \E events \in ProviderResults(p) :
       task' = [task EXCEPT ![p].st = "done", ![p].result = events,
                            ![p].rank = NextRank]
  /\ UNCHANGED <<cred, rpc, all_events, preview, csv_rows, exit_status, shotgun_csv>>
  /\ UNCHANGED notCli

\* [e for chunk in results for e in chunk], results in the order of the tasks
RECURSIVE Flatten(_)
Flatten(results) ==
  IF results = <<>> THEN <<>> ELSE Head(results) \o Flatten(Tail(results))

\* A gather that returns as soon as one task is done (asyncio.wait with
\* FIRST_COMPLETED): the tasks still running contribute nothing.
Gather_FirstCompleted ==
  /\ rpc = "gather"
  /\ \E p \in Providers : task[p].st = "done"
  /\ all_events' = Flatten([k \in 1..Len(REGISTRY) |-> task[REGISTRY[k]].result])
  /\ rpc' = "preview"
  /\ UNCHANGED <<cred, task, preview, csv_rows, exit_status, shotgun_csv>>
  /\ UNCHANGED notCli

\* lines 25-28: gather returns once every task is done; the results are
\* flattened
Gather ==
  /\ rpc = "gather"
  /\ \A p \in Providers : task[p].st = "done"
  /\ all_events' = Flatten([k \in 1..Len(REGISTRY) |-> task[REGISTRY[k]].result])
  /\ rpc' = "preview"
  /\ UNCHANGED <<cred, task, preview, csv_rows, exit_status, shotgun_csv>>
  /\ UNCHANGED notCli

\* lines 31-33: by_provider, the providers that have events and their counts
Counts(events) ==
  LET seen == {events[k].provider : k \in 1..Len(events)}
  IN [p \in seen |-> Cardinality({k \in 1..Len(events) : events[k].provider = p})]

\* lines 36-55: the preview is written to its end; or open() has made the
\* file and json.dump raises on the way, which leaves a part of the text (it
\* may be none of it) in the file; or open() raises and there is no file.
\* Either exception is ignored.
WritePreview ==
  /\ rpc = "preview"
  /\ \/ preview' = [written |-> TRUE, complete |-> TRUE,
                    counts |-> Counts(all_events), total |-> Len(all_events),
                    sample |-> SubSeq(all_events, 1, IF Len(all_events) < 10 THEN Len(all_events) ELSE 10)]
     \/ preview' = [written |-> TRUE, complete |-> FALSE]
     \/ preview' = NoFile
  /\ rpc' = "csv"
  /\ UNCHANGED <<cred, task, all_events, csv_rows, exit_status, shotgun_csv>>
  /\ UNCHANGED notCli

\* what open(path, "w") and the writerow calls of one writer leave in a file:
\* the header and every row, or, when a write raises, a part of them (which
\* part is not recorded)
Written(by, rs) ==
  {[written |-> TRUE, by |-> by, complete |-> TRUE, rows |-> rs],
   [written |-> TRUE, by |-> by, complete |-> FALSE, rows |-> <<>>]}

\* line 59: os.makedirs raises (the path of the export directory is a
\* regular file, or its parent cannot be written).  The call is outside the
\* try of lines 60-91: the exception leaves run_all, no CSV is written and
\* nothing is returned
MakedirsRaises ==
  /\ rpc = "csv"
  /\ rpc' = "makedirs_raised"
  /\ UNCHANGED <<cred, task, all_events, preview, csv_rows, exit_status, shotgun_csv>>
  /\ UNCHANGED notCli

\* lines 58-91 when os.makedirs returns: open(path, "w") and the rows, one
\* per event; when open raises the file stays as it was, when a write
\* raises the file keeps what was written; either failure is logged
WriteCsv ==
  /\ rpc = "csv"
  /\ \/ csv_rows' \in Written("run_all", all_events)
     \/ UNCHANGED csv_rows
  /\ rpc' = "exit"
  /\ UNCHANGED <<cred, task, all_events, preview, exit_status, shotgun_csv>>
  /\ UNCHANGED notCli

\* lines 104-108
ReturnStatus ==
  /\ rpc = "exit"
  /\ exit_status' = IF Len(all_events) = 0 THEN 1 ELSE 0
  /\ rpc' = "returned"
  /\ UNCHANGED <<cred, task, all_events, preview, csv_rows, shotgun_csv>>
  /\ UNCHANGED notCli

\* the lists export_csv and export_csv_consolidated are called with: one
\* NormalizedEvent, one ConsolidatedRow
ExportCsvArgs == {FirstN("shotgun", 1)}

ExportCsvConsolidatedArgs == {<<[canonical_event_key |-> 1]>>}

\* export_csv(events, out_dir) of storage/google_sheets.py, called with the
\* export directory: shotgun_<date>.csv holds one row per event; when
\* os.makedirs or open raises, the exception leaves the function and the
\* file is as it was
ExportCsv ==
  /\ \E events \in ExportCsvArgs :
       \/ shotgun_csv' \in Written("export_csv", events)
       \/ UNCHANGED shotgun_csv
  /\ UNCHANGED <<cred, task, rpc, all_events, preview, csv_rows, exit_status>>
  /\ UNCHANGED notCli

\* export_csv_consolidated(rows, out_dir) of storage/google_sheets.py,
\* called with the export directory on the day of the run: it opens the
\* file run_all writes, consolidated_<date>.csv, and leaves its own rows in
\* it; when os.makedirs or open raises the file is as it was
ExportCsvConsolidated ==
  /\ \E consolidated \in ExportCsvConsolidatedArgs :
       \/ csv_rows' \in Written("export_csv_consolidated", consolidated)
       \/ UNCHANGED csv_rows
  /\ UNCHANGED <<cred, task, rpc, all_events, preview, exit_status, shotgun_csv>>
  /\ UNCHANGED notCli

\* the steps of run_all and of its two tasks
RunAll ==
  \/ \E p \in Providers : StartTask(p)
  \/ \E p \in Providers : RetryAttempt(p)
  \/ \E p \in Providers : GiveUp(p)
  \/ \E p \in Providers : AdapterReturns(p)
  \/ Gather
  \/ WritePreview
  \/ MakedirsRaises
  \/ WriteCsv
  \/ ReturnStatus

NextCli ==
  \/ \E p \in Providers : StartTask(p)
  \/ \E p \in Providers : RetryAttempt(p)
  \/ \E p \in Providers : GiveUp(p)
  \/ \E p \in Providers : AdapterReturns(p)
  \/ Gather
  \/ WritePreview
  \/ MakedirsRaises
  \/ WriteCsv
  \/ ReturnStatus
  \/ ExportCsv
  \/ ExportCsvConsolidated

SpecCli == InitCli /\ [][NextCli]_vars

\* ------------------------------------------------------------------------
\* Properties of run_all
\* ------------------------------------------------------------------------

Gathered == rpc \in {"preview", "csv", "makedirs_raised", "exit", "returned"}

\* the CSV export of run_all is in its file, whole
CsvExported ==
  csv_rows.written /\ csv_rows.by = "run_all" /\ csv_rows.complete

\* providers_preview.json holds the whole preview
PreviewDumped == preview.written /\ preview.complete

\* C14: adapter fail-soft.  The exception of an adapter never leaves
\* _run_provider: run_all is never ended by it, and the task of a provider
\* whose attempts all raised returns the empty list.  Once the tasks are
\* gathered all_events holds every event that the providers returned, a
\* failed provider next to a healthy one included, and the preview and the
\* CSV export of run_all, when written to their end, are made of all of
\* them.
C14_FailSoft ==
  /\ rpc # "raised"
  /\ \A p \in Providers : task[p].failed => task[p].result = <<>>
  /\ Gathered =>
       /\ \A p \in Providers : \A k \in 1..Len(task[p].result) :
            InSeq(all_events, task[p].result[k])
       /\ Len(all_events) = Len(task["shotgun"].result) + Len(task["dice"].result)
  /\ CsvExported => csv_rows.rows = all_events
  /\ PreviewDumped =>
       /\ preview.total = Len(all_events)
       /\ preview.counts = Counts(all_events)

\* C14 witness: run_all has returned 0; the shotgun adapter raised three
\* times and contributed nothing, the two dice events were collected and are
\* the rows of the CSV export and are counted in the preview, both files
\* written to their end.
C14_Witness ==
  /\ rpc = "returned"
  /\ exit_status = 0
  /\ task["shotgun"].failed
  /\ task["shotgun"].attempts = MaxAttempts
  /\ ~task["dice"].failed
  /\ Len(task["dice"].result) = 2
  /\ all_events = task["dice"].result
  /\ CsvExported
  /\ csv_rows.rows = all_events
  /\ PreviewDumped
  /\ preview.total = 2

\* C15: exit status.  run_all returns 1 exactly when no provider returned
\* any event and 0 whenever at least one event was collected; with or
\* without data it returns a status and is never ended by an exception.
C15_ExitStatus ==
  /\ rpc \notin {"raised", "makedirs_raised"}
  /\ rpc = "returned" =>
       /\ exit_status \in {0, 1}
       /\ exit_status = 1 <=> \A p \in Providers : task[p].result = <<>>
       /\ Len(all_events) >= 1 => exit_status = 0
  /\ rpc # "returned" => exit_status = -1

\* C16: fail-fast on configuration.  No provider task is started (or has
\* run) while the credentials of that provider are missing.
C16_FailFast ==
  \A p \in Providers : task[p].st # "pending" => cred[p]

\* ------------------------------------------------------------------------
\* The Google worksheet and its writers (gsheet.py, google_sheets.py)
\* ------------------------------------------------------------------------

\* the values of a dict or of a cell, by Python type
Str(s) == [t |-> "str", v |-> s]
Num(n) == [t |-> "int", v |-> n]
Dt(d) == [t |-> "datetime", v |-> d]
NoneCell == [t |-> "none", v |-> <<>>]

\* datetime.isoformat() of a naive datetime without seconds
IsoFormat(dt) ==
  IsoDate(dt) \o <<"T">> \o Pad(dt[4], 2) \o <<":">> \o Pad(dt[5], 2)
    \o <<":", "0", "0">>

\* _datetime_to_str(v)
_datetime_to_str(c) == IF c.t = "datetime" THEN Str(IsoFormat(c.v)) ELSE c

_BASE_HEADERS == <<
  <<"e","v","e","n","t","_","n","a","m","e">>,
  <<"e","v","e","n","t","_","d","a","t","e","t","i","m","e","_","l","o","c","a","l">>,
  <<"s","h","o","t","g","u","n","_","t","i","c","k","e","t","s","_","s","o","l","d">>,
  <<"d","i","c","e","_","t","i","c","k","e","t","s","_","s","o","l","d">> >>

\* A dict is the sequence of its (key, value) items in insertion order.
Item(k, c) == [k |-> k, c |-> c]

\* r.keys()
Keys(r) == [n \in 1..Len(r) |-> r[n].k]

\* r.get(h, "")
GetCell(r, h) ==
  IF \E n \in 1..Len(r) : r[n].k = h
  THEN r[CHOOSE n \in 1..Len(r) : r[n].k = h].c
  ELSE Str(<<>>)

\* lines 78-82: the keys that are not base headers, each once, in the order
\* they are met
RECURSIVE ExtraKeys(_, _)
ExtraKeys(keys, seen) ==
  IF keys = <<>> THEN <<>>
  ELSE IF Head(keys) \in seen THEN ExtraKeys(Tail(keys), seen)
  ELSE <<Head(keys)>> \o ExtraKeys(Tail(keys), seen \union {Head(keys)})

\* the keys of all the rows, row after row
RECURSIVE AllKeys(_)
AllKeys(rs) == IF rs = <<>> THEN <<>> ELSE Keys(Head(rs)) \o AllKeys(Tail(rs))

\* insertion of one text into a sorted list of texts
RECURSIVE InsertText(_, _)
InsertText(sorted, s) ==
  IF sorted = <<>> THEN <<s>>
  ELSE IF StrLess(s, Head(sorted)) THEN <<s>> \o sorted
  ELSE <<Head(sorted)>> \o InsertText(Tail(sorted), s)

\* The extra keys left in the order they were met.
RECURSIVE Sorted_AsMet(_)
Sorted_AsMet(keys) ==
  IF keys = <<>> THEN <<>> ELSE <<Head(keys)>> \o Sorted_AsMet(Tail(keys))

\* sorted(keys) on texts: ascending by code point
RECURSIVE Sorted(_)
Sorted(keys) ==
  IF keys = <<>> THEN <<>>
  ELSE InsertText(Sorted(SubSeq(keys, 1, Len(keys) - 1)), keys[Len(keys)])

_build_headers(rs) ==
  LET seen == {_BASE_HEADERS[n] : n \in 1..Len(_BASE_HEADERS)}
      extra_keys == ExtraKeys(AllKeys(rs), seen)
  IN _BASE_HEADERS \o Sorted(extra_keys)

_rows_to_matrix(rs, headers) ==
  [n \in 1..Len(rs) |->
     [h \in 1..Len(headers) |-> _datetime_to_str(GetCell(rs[n], headers[h]))]]

\* ws.clear()
Clear(w) == <<>>

Max(a, b) == IF a >= b THEN a ELSE b

\* ws.update(range, matrix) with the range starting in column A of row
\* first: the cells of the matrix replace the cells at their positions, the
\* other cells stay
Update(w, first, matrix) ==
  LET last == first + Len(matrix) - 1
  IN [n \in 1..Max(Len(w), last) |->
        LET old == IF n <= Len(w) THEN w[n] ELSE <<>>
        IN IF n < first \/ n > last THEN old
           ELSE LET new == matrix[n - first + 1]
                IN [m \in 1..Max(Len(old), Len(new)) |->
                      IF m <= Len(new) THEN new[m] ELSE old[m]]]

\* ws.append_row / ws.append_rows: new rows after the last row
AppendRows(w, rs) == w \o rs

\* decimal digits of a non-negative integer
RECURSIVE IntText(_)
IntText(n) ==
  IF n < 10 THEN <<DigitChars[n + 1]>>
  ELSE IntText(n \div 10) \o <<DigitChars[(n % 10) + 1]>>

\* the text get_all_values() gives for a cell
CellText(c) ==
  IF c.t = "str" THEN c.v
  ELSE IF c.t = "int" THEN IntText(c.v)
  ELSE <<>>

Width(w) ==
  IF w = <<>> THEN 0
  ELSE CHOOSE m \in {Len(w[n]) : n \in 1..Len(w)} : \A n \in 1..Len(w) : Len(w[n]) <= m

\* ws.get_all_values(): the texts of the cells, every row filled with ""
\* up to the width of the widest row
GetAllValues(w) ==
  [n \in 1..Len(w) |->
     [m \in 1..Width(w) |-> IF m <= Len(w[n]) THEN CellText(w[n][m]) ELSE <<>>]]

HeaderRow(headers) == [n \in 1..Len(headers) |-> Str(headers[n])]

\* export_to_gsheet lines 101-123 when no other request on the worksheet
\* comes between its own: the worksheet it leaves (the resize of lines
\* 120-123 changes the grid, not the values)
ExportResult(w, rs) ==
  IF rs = <<>> THEN w
  ELSE LET headers == _build_headers(rs)
           matrix == _rows_to_matrix(rs, headers)
           w1 == Clear(w)
           w2 == Update(w1, 1, <<HeaderRow(headers)>>)
       IN IF matrix # <<>> THEN Update(w2, 2, matrix) ELSE w2

\* the header of upsert_rows
UpsertHeader == <<
  <<"p","r","o","v","i","d","e","r">>, <<"e","v","e","n","t","_","i","d","_","p","r","o","v","i","d","e","r">>, <<"e","v","e","n","t","_","n","a","m","e">>, <<"c","i","t","y">>, <<"c","o","u","n","t","r","y">>,
  <<"e","v","e","n","t","_","d","a","t","e","t","i","m","e","_","l","o","c","a","l">>, <<"t","i","m","e","z","o","n","e">>, <<"s","t","a","t","u","s">>, <<"t","i","c","k","e","t","s","_","s","o","l","d","_","t","o","t","a","l">>,
  <<"g","r","o","s","s","_","t","o","t","a","l">>, <<"n","e","t","_","t","o","t","a","l">>, <<"c","u","r","r","e","n","c","y">>, <<"s","e","l","l","_","t","h","r","o","u","g","h","_","p","c","t">>,
  <<"s","c","r","a","p","e","_","t","s","_","u","t","c">>, <<"i","n","g","e","s","t","i","o","n","_","r","u","n","_","i","d">> >>

\* lines 57-73: the sheet row of one NormalizedEvent
EventRow(e) == <<
  e.provider, e.event_id_provider, e.event_name, e.city, e.country,
  IF e.event_datetime_local # NoDate THEN Str(IsoFormat(e.event_datetime_local))
                                     ELSE Str(<<>>),
  e.timezone, e.status, e.tickets_sold_total, e.gross_total, e.net_total,
  e.currency, e.sell_through_pct, Str(IsoFormat(e.scrape_ts_utc)),
  e.ingestion_run_id >>

\* the header of upsert_rows_consolidated
ConsolidatedHeader == <<
  <<"c","a","n","o","n","i","c","a","l","_","e","v","e","n","t","_","k","e","y">>, <<"e","v","e","n","t","_","n","a","m","e">>, <<"e","v","e","n","t","_","d","a","t","e","t","i","m","e","_","l","o","c","a","l">>, <<"t","i","m","e","z","o","n","e">>,
  <<"t","i","c","k","e","t","s","_","s","o","l","d","_","t","o","t","a","l","_","s","h","o","t","g","u","n">>, <<"t","i","c","k","e","t","s","_","s","o","l","d","_","t","o","t","a","l","_","d","i","c","e">>,
  <<"s","c","r","a","p","e","_","t","s","_","u","t","c">>, <<"i","n","g","e","s","t","i","o","n","_","r","u","n","_","i","d">> >>

\* lines 125-134: the sheet row of one ConsolidatedRow
ConsolidatedCells(r) == <<
  r.canonical_event_key, r.event_name,
  IF r.event_datetime_local # NoDate THEN Str(IsoFormat(r.event_datetime_local))
                                     ELSE Str(<<>>),
  r.timezone, r.tickets_sold_total_shotgun, r.tickets_sold_total_dice,
  Str(IsoFormat(r.scrape_ts_utc)), r.ingestion_run_id >>

\* line 61 of diag.py: the row main() appends, with the time of the run
DiagRow == << Str(<<"D","I","A","G">>), Str(<<"2","0","2","5","-","1","0","-","0","1","T","0","6",":","0","0",":","0","0","Z">>), Str(<<"o","k">>) >>

MaxCalls == 2

\* rows as consolidate_events builds them: a merged row, a dice singleton
\* without shotgun_event_id, an undated shotgun singleton without
\* dice_event_id, and a dict with other keys and a datetime
DaftPunkRow ==
  << Item(<<"e","v","e","n","t","_","n","a","m","e">>, Str(<<"D","a","f","t"," ","P","u","n","k">>)),
     Item(<<"e","v","e","n","t","_","d","a","t","e","t","i","m","e","_","l","o","c","a","l">>, Str(<<"2","0","2","5","-","1","0","-","1","0">>)),
     Item(<<"a","r","t","i","s","t">>, Str(<<"D","a","f","t"," ","P","u","n","k">>)),
     Item(<<"v","e","n","u","e">>, Str(<<"P","a","r","i","s">>)),
     Item(<<"s","h","o","t","g","u","n","_","t","i","c","k","e","t","s","_","s","o","l","d">>, Num(500)),
     Item(<<"d","i","c","e","_","t","i","c","k","e","t","s","_","s","o","l","d">>, Num(480)),
     Item(<<"s","h","o","t","g","u","n","_","e","v","e","n","t","_","i","d">>, Str(<<"d","a","f","t","-","p","u","n","k","-","1">>)),
     Item(<<"d","i","c","e","_","e","v","e","n","t","_","i","d">>, Str(<<"d","1">>)) >>

BandRow ==
  << Item(<<"e","v","e","n","t","_","n","a","m","e">>, Str(<<"B","a","n","d">>)),
     Item(<<"e","v","e","n","t","_","d","a","t","e","t","i","m","e","_","l","o","c","a","l">>, Str(<<"2","0","2","5","-","1","1","-","0","1">>)),
     Item(<<"a","r","t","i","s","t">>, Str(<<>>)),
     Item(<<"v","e","n","u","e">>, Str(<<"V","e","n","u","e","1">>)),
     Item(<<"s","h","o","t","g","u","n","_","t","i","c","k","e","t","s","_","s","o","l","d">>, NoneCell),
     Item(<<"d","i","c","e","_","t","i","c","k","e","t","s","_","s","o","l","d">>, Num(75)),
     Item(<<"d","i","c","e","_","e","v","e","n","t","_","i","d">>, Str(<<"d","3">>)) >>

JazzRow ==
  << Item(<<"e","v","e","n","t","_","n","a","m","e">>, Str(<<"J","a","z","z"," ","N","i","g","h","t">>)),
     Item(<<"e","v","e","n","t","_","d","a","t","e","t","i","m","e","_","l","o","c","a","l">>, Str(<<>>)),
     Item(<<"a","r","t","i","s","t">>, Str(<<>>)),
     Item(<<"v","e","n","u","e">>, Str(<<>>)),
     Item(<<"s","h","o","t","g","u","n","_","t","i","c","k","e","t","s","_","s","o","l","d">>, Num(20)),
     Item(<<"d","i","c","e","_","t","i","c","k","e","t","s","_","s","o","l","d">>, NoneCell),
     Item(<<"s","h","o","t","g","u","n","_","e","v","e","n","t","_","i","d">>, Str(<<"j","a","z","z","-","n","i","g","h","t","-","2">>)) >>

SoloRow ==
  << Item(<<"z","o","n","e">>, Str(<<"A">>)),
     Item(<<"e","v","e","n","t","_","n","a","m","e">>, Str(<<"S","o","l","o"," ","E","v","e","n","t">>)),
     Item(<<"T","o","u","r">>, Str(<<"2","0","2","5">>)),
     Item(<<"e","v","e","n","t","_","d","a","t","e","t","i","m","e","_","l","o","c","a","l">>, Dt(<<2025, 12, 1, 20, 0>>)) >>

\* NormalizedEvent records as the adapters build them
ShotgunEvent ==
  [provider |-> Str(<<"s","h","o","t","g","u","n">>), event_id_provider |-> Str(<<"d","a","f","t","-","p","u","n","k","-","1">>),
   event_name |-> Str(<<"D","a","f","t"," ","P","u","n","k">>), city |-> Str(<<"P","a","r","i","s">>), country |-> NoneCell,
   event_datetime_local |-> <<2025, 10, 10, 20, 0>>, timezone |-> Str(<<"E","u","r","o","p","e","/","P","a","r","i","s">>),
   status |-> NoneCell, tickets_sold_total |-> Num(500), gross_total |-> NoneCell,
   net_total |-> NoneCell, currency |-> Str(<<"E","U","R">>), sell_through_pct |-> NoneCell,
   scrape_ts_utc |-> <<2025, 10, 1, 6, 0>>, ingestion_run_id |-> Str(<<"r","u","n","-","1">>)]

DiceEvent ==
  [provider |-> Str(<<"d","i","c","e">>), event_id_provider |-> Str(<<"d","3">>),
   event_name |-> Str(<<"B","a","n","d">>), city |-> NoneCell, country |-> NoneCell,
   event_datetime_local |-> NoDate, timezone |-> Str(<<"E","u","r","o","p","e","/","P","a","r","i","s">>),
   status |-> NoneCell, tickets_sold_total |-> Num(75), gross_total |-> NoneCell,
   net_total |-> NoneCell, currency |-> NoneCell, sell_through_pct |-> NoneCell,
   scrape_ts_utc |-> <<2025, 10, 2, 6, 0>>, ingestion_run_id |-> Str(<<"r","u","n","-","2">>)]

\* a ConsolidatedRow as merge_shotgun_dice builds it
MergedEvent ==
  [canonical_event_key |-> Str(<<"d","a","f","t"," ","p","u","n","k","|","2","0","2","5","-","1","0","-","1","0","T","2","0",":","0","0">>),
   event_name |-> Str(<<"D","a","f","t"," ","P","u","n","k">>),
   event_datetime_local |-> <<2025, 10, 10, 20, 0>>, timezone |-> Str(<<"E","u","r","o","p","e","/","P","a","r","i","s">>),
   tickets_sold_total_shotgun |-> Num(500), tickets_sold_total_dice |-> Num(480),
   scrape_ts_utc |-> <<2025, 10, 1, 6, 0>>, ingestion_run_id |-> Str(<<"r","u","n","-","1">>)]

\* the arguments the writers are called with
ExportArgs == {<<>>, <<SoloRow>>, <<DaftPunkRow, BandRow>>}

UpsertArgs == {<<>>, <<ShotgunEvent, DiceEvent>>}

ConsolidatedArgs == {<<>>, <<MergedEvent>>}

\* no call: the place of a call that has not been made
NoCall ==
  [op |-> "none", pc |-> "idle", arg |-> <<>>, header |-> <<>>, rows |-> <<>>,
   before |-> <<>>, alone |-> TRUE]

\* a call that has just been made with arg, about to send its first
\* request; header and rows are the cells it computes from arg; before and
\* alone record the worksheet at the time of the call and that no request of
\* another call has written the worksheet since
NewCall(op, pc0, arg, header, rs, w) ==
  [op |-> op, pc |-> IF arg = <<>> THEN "returned" ELSE pc0, arg |-> arg,
   header |-> header, rows |-> rs, before |-> w, alone |-> TRUE]

\* the call has sent a request and not yet returned
InFlight(c) == c.pc \notin {"idle", "returned", "raised"}

\* call k goes on to c after a request that reads the worksheet
AfterRead(k, c) == [j \in 1..MaxCalls |-> IF j = k THEN c ELSE call[j]]

\* call k goes on to c after a request that writes the worksheet: the other
\* calls in flight are no longer alone
AfterWrite(k, c) ==
  [j \in 1..MaxCalls |->
     IF j = k THEN c
     ELSE IF InFlight(call[j]) THEN [call[j] EXCEPT !.alone = FALSE]
     ELSE call[j]]

\* the worksheet has just been created by add_worksheet; no call yet
InitSheet ==
  /\ ws = <<>>
  /\ call = [k \in 1..MaxCalls |-> NoCall]
  /\ ncalls = 0
  /\ CeIdle
  /\ NormIdle
  /\ MergeIdle
  /\ CliIdle
  /\ AdapterIdle
  /\ SchemaIdle

\* export_to_gsheet(consolidated_rows), lines 101-111 and 125: nothing to do
\* for an empty list; otherwise _blocking starts in a worker thread, with
\* its headers and its matrix
ExportToGsheet ==
  /\ ncalls < MaxCalls
  /\ \E consolidated_rows \in ExportArgs :
       \E headers \in {_build_headers(consolidated_rows)} :
         call' = AfterRead(ncalls + 1,
                   NewCall("export", "clear", consolidated_rows, HeaderRow(headers),
                           _rows_to_matrix(consolidated_rows, headers), ws))
  /\ ncalls' = ncalls + 1
  /\ UNCHANGED ws
  /\ UNCHANGED notSheet

\* The first request of _blocking when line 114 is left out.
ExportClear_Skipped(k) ==
  /\ call[k].op = "export"
  /\ call[k].pc = "clear"
  /\ UNCHANGED ws
  /\ call' = AfterWrite(k, [call[k] EXCEPT !.pc = "update_headers"])
  /\ UNCHANGED ncalls
  /\ UNCHANGED notSheet

\* line 114: ws.clear()
ExportClear(k) ==
  /\ call[k].op = "export"
  /\ call[k].pc = "clear"
  /\ ws' = Clear(ws)
  /\ call' = AfterWrite(k, [call[k] EXCEPT !.pc = "update_headers"])
  /\ UNCHANGED ncalls
  /\ UNCHANGED notSheet

\* line 115: ws.update("A1", [headers])
ExportUpdateHeaders(k) ==
  /\ call[k].op = "export"
  /\ call[k].pc = "update_headers"
  /\ ws' = Update(ws, 1, <<call[k].header>>)
  /\ call' = AfterWrite(k, [call[k] EXCEPT !.pc = "update_matrix"])
  /\ UNCHANGED ncalls
  /\ UNCHANGED notSheet

\* lines 116-117: ws.update("A2", matrix); the matrix has a row per row of
\* the argument, so it is not empty here
ExportUpdateMatrix(k) ==
  /\ call[k].op = "export"
  /\ call[k].pc = "update_matrix"
  /\ ws' = Update(ws, 2, call[k].rows)
  /\ call' = AfterWrite(k, [call[k] EXCEPT !.pc = "resize"])
  /\ UNCHANGED ncalls
  /\ UNCHANGED notSheet

\* lines 120-125: ws.resize to at least 1000 rows and 26 columns, which
\* keeps every value of a worksheet of this size; an exception of the
\* request is ignored; _blocking and export_to_gsheet return
ExportResize(k) ==
  /\ call[k].op = "export"
  /\ call[k].pc = "resize"
  /\ call' = AfterRead(k, [call[k] EXCEPT !.pc = "returned"])
  /\ UNCHANGED <<ws, ncalls>>
  /\ UNCHANGED notSheet

\* upsert_rows(events), lines 22-47: "" for no events; otherwise the client
\* and the worksheet are opened
UpsertRows ==
  /\ ncalls < MaxCalls
  /\ \E events \in UpsertArgs :
       call' = AfterRead(ncalls + 1,
                 NewCall("upsert", "get_all_values", events, HeaderRow(UpsertHeader),
                         [n \in 1..Len(events) |-> EventRow(events[n])], ws))
  /\ ncalls' = ncalls + 1
  /\ UNCHANGED ws
  /\ UNCHANGED notSheet

\* lines 50-51: existing = ws.get_all_values() and the test of its first
\* row, the one use of existing
UpsertGetAllValues(k) ==
  /\ call[k].op = "upsert"
  /\ call[k].pc = "get_all_values"
  /\ \E existing \in {GetAllValues(ws)} :
       call' = AfterRead(k, [call[k] EXCEPT
                 !.pc = IF existing = <<>> \/ existing[1] # UpsertHeader
                        THEN "clear" ELSE "append_rows"])
  /\ UNCHANGED <<ws, ncalls>>
  /\ UNCHANGED notSheet

\* line 52: ws.clear()
UpsertClear(k) ==
  /\ call[k].op = "upsert"
  /\ call[k].pc = "clear"
  /\ ws' = Clear(ws)
  /\ call' = AfterWrite(k, [call[k] EXCEPT !.pc = "append_row"])
  /\ UNCHANGED ncalls
  /\ UNCHANGED notSheet

\* line 53: ws.append_row(header)
UpsertAppendRow(k) ==
  /\ call[k].op = "upsert"
  /\ call[k].pc = "append_row"
  /\ ws' = AppendRows(ws, <<call[k].header>>)
  /\ call' = AfterWrite(k, [call[k] EXCEPT !.pc = "append_rows"])
  /\ UNCHANGED ncalls
  /\ UNCHANGED notSheet

\* lines 55-79: ws.append_rows(rows), a row per event, and the return
UpsertAppendRows(k) ==
  /\ call[k].op = "upsert"
  /\ call[k].pc = "append_rows"
  /\ ws' = AppendRows(ws, call[k].rows)
  /\ call' = AfterWrite(k, [call[k] EXCEPT !.pc = "returned"])
  /\ UNCHANGED ncalls
  /\ UNCHANGED notSheet

\* upsert_rows_consolidated(rows), lines 103-117
UpsertRowsConsolidated ==
  /\ ncalls < MaxCalls
  /\ \E consolidated \in ConsolidatedArgs :
       call' = AfterRead(ncalls + 1,
                 NewCall("upsert_consolidated", "get_all_values", consolidated,
                         HeaderRow(ConsolidatedHeader),
                         [n \in 1..Len(consolidated) |-> ConsolidatedCells(consolidated[n])],
                         ws))
  /\ ncalls' = ncalls + 1
  /\ UNCHANGED ws
  /\ UNCHANGED notSheet

\* lines 118-120: existing = ws.get_all_values() and the tests on it, its
\* only uses; the worksheet is cleared only when the read found rows
ConsolidatedGetAllValues(k) ==
  /\ call[k].op = "upsert_consolidated"
  /\ call[k].pc = "get_all_values"
  /\ \E existing \in {GetAllValues(ws)} :
       call' = AfterRead(k, [call[k] EXCEPT
                 !.pc = IF existing = <<>> THEN "append_row"
                        ELSE IF existing[1] # ConsolidatedHeader THEN "clear"
                        ELSE "append_rows"])
  /\ UNCHANGED <<ws, ncalls>>
  /\ UNCHANGED notSheet

\* line 120: ws.clear()
ConsolidatedClear(k) ==
  /\ call[k].op = "upsert_consolidated"
  /\ call[k].pc = "clear"
  /\ ws' = Clear(ws)
  /\ call' = AfterWrite(k, [call[k] EXCEPT !.pc = "append_row"])
  /\ UNCHANGED ncalls
  /\ UNCHANGED notSheet

\* line 121: ws.append_row(header)
ConsolidatedAppendRow(k) ==
  /\ call[k].op = "upsert_consolidated"
  /\ call[k].pc = "append_row"
  /\ ws' = AppendRows(ws, <<call[k].header>>)
  /\ call' = AfterWrite(k, [call[k] EXCEPT !.pc = "append_rows"])
  /\ UNCHANGED ncalls
  /\ UNCHANGED notSheet

\* lines 123-137: ws.append_rows(data), a row per ConsolidatedRow, and the
\* return
ConsolidatedAppendRows(k) ==
  /\ call[k].op = "upsert_consolidated"
  /\ call[k].pc = "append_rows"
  /\ ws' = AppendRows(ws, call[k].rows)
  /\ call' = AfterWrite(k, [call[k] EXCEPT !.pc = "returned"])
  /\ UNCHANGED ncalls
  /\ UNCHANGED notSheet

\* main() of diag.py, lines 44-69: its one request on the worksheet,
\* ws.append_row(row); when the request raises the exception is caught,
\* the worksheet is as it was, and main exits all the same
DiagMain ==
  /\ ncalls < MaxCalls
  /\ \/ /\ ws' = AppendRows(ws, <<DiagRow>>)
        /\ call' = AfterWrite(ncalls + 1,
                     [NoCall EXCEPT !.op = "diag", !.pc = "returned",
                                    !.rows = <<DiagRow>>, !.before = ws])
     \/ /\ UNCHANGED ws
        /\ call' = AfterRead(ncalls + 1,
                     [NoCall EXCEPT !.op = "diag", !.pc = "returned", !.before = ws])
  /\ ncalls' = ncalls + 1
  /\ UNCHANGED notSheet

\* the request a call is about to send raises (gspread's APIError, or the
\* client or the spreadsheet cannot be opened before the first request):
\* the worksheet keeps what the earlier requests of the call made of it and
\* the exception leaves export_to_gsheet, upsert_rows or
\* upsert_rows_consolidated.  The resize of export_to_gsheet is the one
\* request whose exception is caught.
RequestRaises(k) ==
  /\ InFlight(call[k])
  /\ call[k].pc # "resize"
  /\ call' = AfterRead(k, [call[k] EXCEPT !.pc = "raised"])
  /\ UNCHANGED <<ws, ncalls>>
  /\ UNCHANGED notSheet

NextSheet ==
  \/ ExportToGsheet
  \/ \E k \in 1..MaxCalls : ExportClear(k)
  \/ \E k \in 1..MaxCalls : ExportUpdateHeaders(k)
  \/ \E k \in 1..MaxCalls : ExportUpdateMatrix(k)
  \/ \E k \in 1..MaxCalls : ExportResize(k)
  \/ UpsertRows
  \/ \E k \in 1..MaxCalls : UpsertGetAllValues(k)
  \/ \E k \in 1..MaxCalls : UpsertClear(k)
  \/ \E k \in 1..MaxCalls : UpsertAppendRow(k)
  \/ \E k \in 1..MaxCalls : UpsertAppendRows(k)
  \/ UpsertRowsConsolidated
  \/ \E k \in 1..MaxCalls : ConsolidatedGetAllValues(k)
  \/ \E k \in 1..MaxCalls : ConsolidatedClear(k)
  \/ \E k \in 1..MaxCalls : ConsolidatedAppendRow(k)
  \/ \E k \in 1..MaxCalls : ConsolidatedAppendRows(k)
  \/ DiagMain
  \/ \E k \in 1..MaxCalls : RequestRaises(k)

SpecSheet == InitSheet /\ [][NextSheet]_vars

\* ------------------------------------------------------------------------
\* Properties of the worksheet writers
\* ------------------------------------------------------------------------

\* the header row followed by the rows of the argument, cell by cell
HeaderAndRows(rs) ==
  <<HeaderRow(_build_headers(rs))>> \o _rows_to_matrix(rs, _build_headers(rs))

\* call k returns in this step
Returns(k) == call[k].pc # "returned" /\ call'[k].pc = "returned"

\* C17 (as stated): when export_to_gsheet(rows) returns, for any list of
\* rows, the worksheet is the header row followed by those rows and nothing
\* else, and a second call with the same rows would leave it as it is.
C17_IdempotentOverwrite ==
  [][\A k \in 1..MaxCalls :
       Returns(k) /\ call'[k].op = "export" =>
         /\ ws' = HeaderAndRows(call'[k].arg)
         /\ ExportResult(ws', call'[k].arg) = ws']_vars

\* C17 (amended): when export_to_gsheet(rows) returns after a call with a
\* non-empty list, and no request of another call wrote the worksheet
\* during the call, the worksheet is the header row followed by those rows
\* and nothing of its previous content, and a second call with the same
\* rows would leave it as it is; a call with an empty list returns with the
\* worksheet left as it was, previous content included.
C17_OverwriteUnlessEmpty ==
  [][\A k \in 1..MaxCalls :
       Returns(k) /\ call'[k].op = "export" =>
         /\ call'[k].arg # <<>> /\ call'[k].alone =>
              /\ ws' = HeaderAndRows(call'[k].arg)
              /\ ExportResult(ws', call'[k].arg) = ws'
         /\ call'[k].arg = <<>> => ws' = ws /\ ws' = call'[k].before]_vars

\* C17 witness: export_to_gsheet has returned from a call with two rows made
\* on a worksheet that held the upsert_rows header and two event rows; no
\* other call wrote meanwhile, and the worksheet holds the export header and
\* the two rows only.
C17_Witness ==
  \E k \in 1..MaxCalls :
    /\ call[k].op = "export"
    /\ call[k].pc = "returned"
    /\ call[k].alone
    /\ Len(call[k].arg) = 2
    /\ Len(call[k].before) = 3
    /\ call[k].before[1] = HeaderRow(UpsertHeader)
    /\ Len(ws) = 3
    /\ ws[1] = call[k].header
    /\ ws = HeaderAndRows(call[k].arg)

\* C19: upsert_rows is append-only.  When a call returns, the rows that
\* were in the worksheet at the time of the call are all still there,
\* unchanged and at their places; the rows of the given events have been
\* added at the end, and a call without events has left the worksheet
\* untouched.
C19_AppendOnly ==
  [][\A k \in 1..MaxCalls :
       Returns(k) /\ call'[k].op = "upsert" =>
         LET c == call'[k]
         IN /\ c.arg = <<>> => ws' = c.before
            /\ c.alone => Len(ws') >= Len(c.before)
            /\ SubSeq(ws', 1, Len(c.before)) = c.before
            /\ Len(ws') >= Len(c.arg)
            /\ SubSeq(ws', Len(ws') - Len(c.arg) + 1, Len(ws')) = c.rows]_vars

\* ------------------------------------------------------------------------
\* The headers and the matrix of an export (_build_headers, _rows_to_matrix)
\* ------------------------------------------------------------------------

MaxSheetRows == 3

\* the dicts an export can be given
SheetRowPool == {DaftPunkRow, BandRow, JazzRow, SoloRow}

\* export_to_gsheet has been called with a list of row dicts
InitSchema ==
  /\ srows \in ListsUpTo(SheetRowPool, MaxSheetRows)
  /\ sheaders = <<>>
  /\ smatrix = <<>>
  /\ spc = "export_to_gsheet"
  /\ CeIdle
  /\ NormIdle
  /\ MergeIdle
  /\ CliIdle
  /\ SheetIdle
  /\ AdapterIdle

\* lines 101-109: with no rows export_to_gsheet returns at once, and neither
\* the headers nor the matrix are built; with rows _blocking starts
CheckRows ==
  /\ spc = "export_to_gsheet"
  /\ spc' = IF srows = <<>> THEN "returned" ELSE "build_headers"
  /\ UNCHANGED <<srows, sheaders, smatrix>>
  /\ UNCHANGED notSchema

\* line 110: headers = _build_headers(consolidated_rows)
BuildHeaders ==
  /\ spc = "build_headers"
  /\ sheaders' = _build_headers(srows)
  /\ spc' = "rows_to_matrix"
  /\ UNCHANGED <<srows, smatrix>>
  /\ UNCHANGED notSchema

\* line 111: matrix = _rows_to_matrix(consolidated_rows, headers)
RowsToMatrix ==
  /\ spc = "rows_to_matrix"
  /\ smatrix' = _rows_to_matrix(srows, sheaders)
  /\ spc' = "done"
  /\ UNCHANGED <<srows, sheaders>>
  /\ UNCHANGED notSchema

NextSchema == CheckRows \/ BuildHeaders \/ RowsToMatrix

SpecSchema == InitSchema /\ [][NextSchema]_vars

IsBase(h) == \E n \in 1..Len(_BASE_HEADERS) : _BASE_HEADERS[n] = h

\* C18: sheet schema.  The headers built for the rows of an export are the
\* base columns in their order, followed by every other key of any row,
\* each exactly once, ascending by code point; every matrix row has one
\* cell per header: the value of the row for that key, the empty string
\* where the row has no such key.
C18_SheetSchema ==
  spc = "done" =>
    LET nbase == Len(_BASE_HEADERS)
    IN /\ SubSeq(sheaders, 1, nbase) = _BASE_HEADERS
       /\ \A n \in 1..Len(srows) : \A m \in 1..Len(srows[n]) :
            ~IsBase(srows[n][m].k) =>
              Cardinality({h \in nbase + 1..Len(sheaders) : sheaders[h] = srows[n][m].k}) = 1
       /\ \A h \in nbase + 1..Len(sheaders) :
            /\ ~IsBase(sheaders[h])
            /\ \E n \in 1..Len(srows) : \E m \in 1..Len(srows[n]) : srows[n][m].k = sheaders[h]
       /\ \A h \in nbase + 1..Len(sheaders) - 1 : StrLess(sheaders[h], sheaders[h + 1])
       /\ Len(smatrix) = Len(srows)
       /\ \A n \in 1..Len(srows) :
            /\ Len(smatrix[n]) = Len(sheaders)
            /\ \A h \in 1..Len(sheaders) :
                 LET has == {m \in 1..Len(srows[n]) : srows[n][m].k = sheaders[h]}
                 IN IF has = {} THEN smatrix[n][h] = Str(<<>>)
                    ELSE \E m \in has :
                           /\ srows[n][m].c.t # "datetime" => smatrix[n][h] = srows[n][m].c
                           /\ srows[n][m].c.t = "datetime" =>
                                smatrix[n][h] = Str(IsoFormat(srows[n][m].c.v))

\* C18 witness: the headers and the matrix were built for a merged row and
\* a dice singleton without shotgun_event_id; there is a shotgun_event_id
\* column, after the dice_event_id column, and the cell of the singleton in
\* it is the empty string.
C18_Witness ==
  /\ spc = "done"
  /\ srows = <<DaftPunkRow, BandRow>>
  /\ \E h \in 2..Len(sheaders) :
       /\ sheaders[h] = <<"s","h","o","t","g","u","n","_","e","v","e","n","t","_","i","d">>
       /\ sheaders[h - 1] = <<"d","i","c","e","_","e","v","e","n","t","_","i","d">>
       /\ smatrix[1][h] = Str(<<"d","a","f","t","-","p","u","n","k","-","1">>)
       /\ smatrix[2][h] = Str(<<>>)
       /\ \A m \in 1..Len(srows[2]) : srows[2][m].k # <<"s","h","o","t","g","u","n","_","e","v","e","n","t","_","i","d">>

\* ------------------------------------------------------------------------
\* The card loops of the two adapters (shotgun.py, dice.py)
\* ------------------------------------------------------------------------

MaxCards == 2

\* an element that the selector does not find
Absent == <<"absent">>

\* inner_text() of an element
ElementTexts == { <<"B","a","n","d">>, <<" ","D","a","f","t"," ","P","u","n","k"," ">>, <<" ">>, <<>> }

\* A shotgun card: the text of its name element and of its first <a>, each
\* Absent when the card has no such element.
ShotgunCards ==
  {[name_el |-> n, a |-> l] :
     n \in ElementTexts \union {Absent}, l \in ElementTexts \union {Absent}}

\* card_el.evaluate("e => e.outerHTML") raises
EvaluateRaises == "evaluate raises"

\* A dice event link: whether it has an href with "/events/" in it, whether
\* a card element is found above it, the outerHTML of that card
\* (EvaluateRaises when it cannot be read) and the text of the link.
DiceLinks ==
  {[href |-> h, card_el |-> c, outer |-> o, text |-> x] :
     h \in BOOLEAN, c \in BOOLEAN, o \in {"card-1", "card-2", EvaluateRaises},
     x \in ElementTexts}

InitAdapter ==
  /\ \/ scraper = "shotgun" /\ cards \in ListsUpTo(ShotgunCards, MaxCards)
     \/ scraper = "dice" /\ cards \in ListsUpTo(DiceLinks, MaxCards)
  /\ ci = 1
  /\ lpc = "link"
  /\ cards_seen = {}
  /\ events_out = <<>>
  /\ CeIdle
  /\ NormIdle
  /\ MergeIdle
  /\ CliIdle
  /\ SheetIdle
  /\ SchemaIdle

\* shotgun.py lines 278-287: the name of a card, None when there is none
ShotgunName(c) ==
  LET event_name == IF c.name_el # Absent THEN Strip(c.name_el) ELSE None
  IN IF Truthy(event_name) THEN event_name
     ELSE IF c.a # Absent THEN Or(Strip(c.a), None)
     ELSE None

\* shotgun.py lines 288-289: a card without name is passed over
ShotgunSkipCard ==
  /\ scraper = "shotgun"
  /\ ci \in 1..Len(cards)
  /\ ~Truthy(ShotgunName(cards[ci]))
  /\ ci' = ci + 1
  /\ UNCHANGED <<scraper, cards, lpc, cards_seen, events_out>>
  /\ UNCHANGED notAdapter

\* shotgun.py lines 276-453: a card with a name gives a NormalizedEvent
ShotgunAppendEvent ==
  /\ scraper = "shotgun"
  /\ ci \in 1..Len(cards)
  /\ Truthy(ShotgunName(cards[ci]))
  /\ events_out' = Append(events_out,
                          [provider |-> "shotgun", event_name |-> ShotgunName(cards[ci])])
  /\ ci' = ci + 1
  /\ UNCHANGED <<scraper, cards, lpc, cards_seen>>
  /\ UNCHANGED notAdapter

\* dice.py lines 281-283, 298-300, 304-307: the link is passed over: it has
\* no href of an event, no card element is found above it, or the outerHTML
\* of its card was read and has been seen
DiceSkips(l) ==
  \/ ~l.href
  \/ ~l.card_el
  \/ l.outer # EvaluateRaises /\ l.outer \in cards_seen

DiceSkipLink ==
  /\ scraper = "dice"
  /\ ci \in 1..Len(cards)
  /\ lpc = "link"
  /\ DiceSkips(cards[ci])
  /\ ci' = ci + 1
  /\ UNCHANGED <<scraper, cards, lpc, cards_seen, events_out>>
  /\ UNCHANGED notAdapter

\* dice.py lines 281-308: the outerHTML of the card is read and is new: its
\* hash is added to cards_seen, and the loop body goes on to await the
\* browser for the fields of the event
DiceAddSeen ==
  /\ scraper = "dice"
  /\ ci \in 1..Len(cards)
  /\ lpc = "link"
  /\ ~DiceSkips(cards[ci])
  /\ cards[ci].outer # EvaluateRaises
  /\ cards_seen' = cards_seen \union {cards[ci].outer}
  /\ lpc' = "fields"
  /\ UNCHANGED <<scraper, cards, ci, events_out>>
  /\ UNCHANGED notAdapter

\* dice.py lines 303-310: card_el.evaluate raises; the exception is ignored
\* and the link is treated with cards_seen as it was
DiceEvaluateRaises ==
  /\ scraper = "dice"
  /\ ci \in 1..Len(cards)
  /\ lpc = "link"
  /\ ~DiceSkips(cards[ci])
  /\ cards[ci].outer = EvaluateRaises
  /\ lpc' = "fields"
  /\ UNCHANGED <<scraper, cards, ci, cards_seen, events_out>>
  /\ UNCHANGED notAdapter

\* dice.py lines 313-381: after the awaits for the name, the date and the
\* tickets, the link gives a NormalizedEvent named after its text
DiceAppendEvent ==
  /\ scraper = "dice"
  /\ ci \in 1..Len(cards)
  /\ lpc = "fields"
  /\ events_out' = Append(events_out,
                          [provider |-> "dice", event_name |-> Strip(cards[ci].text)])
  /\ ci' = ci + 1
  /\ lpc' = "link"
  /\ UNCHANGED <<scraper, cards, cards_seen>>
  /\ UNCHANGED notAdapter

\* shotgun.py line 469, dice.py line 400: after the loop, context.close() or
\* browser.close() raises; the await stands outside every try, so the
\* exception ends run() and the list that was built is not returned
CloseRaises ==
  /\ scraper \in {"shotgun", "dice"}
  /\ ci = Len(cards) + 1
  /\ ci' = 0
  /\ lpc' = "raised"
  /\ cards_seen' = {}
  /\ events_out' = <<>>
  /\ UNCHANGED <<scraper, cards>>
  /\ UNCHANGED notAdapter

\* shotgun.py lines 469-471, dice.py lines 400-401: the browser is closed and
\* run() returns out (ci = 0 from then on)
AdapterReturn ==
  /\ scraper \in {"shotgun", "dice"}
  /\ ci = Len(cards) + 1
  /\ ci' = 0
  /\ UNCHANGED <<scraper, cards, lpc, cards_seen, events_out>>
  /\ UNCHANGED notAdapter

\* shotgun.py lines 278-299, dice.py lines 281-320: an await of the loop
\* body that stands outside every try raises; the exception ends run(), the
\* list built so far is lost with it and nothing is returned
AwaitRaises ==
  /\ scraper \in {"shotgun", "dice"}
  /\ ci \in 1..Len(cards)
  /\ ci' = 0
  /\ lpc' = "raised"
  /\ cards_seen' = {}
  /\ events_out' = <<>>
  /\ UNCHANGED <<scraper, cards>>
  /\ UNCHANGED notAdapter

NextAdapter ==
  \/ ShotgunSkipCard
  \/ ShotgunAppendEvent
  \/ DiceSkipLink
  \/ DiceAddSeen
  \/ DiceEvaluateRaises
  \/ DiceAppendEvent
  \/ AwaitRaises
  \/ CloseRaises
  \/ AdapterReturn

SpecAdapter == InitAdapter /\ [][NextAdapter]_vars

\* ------------------------------------------------------------------------
\* Properties of the adapters
\* ------------------------------------------------------------------------

\* C20: display-name invariant.  Every record that an adapter has built for
\* the core has a non-empty event_name (a card without name is dropped).
C20_NonEmptyName ==
  \A k \in 1..Len(events_out) :
    events_out[k].event_name # None /\ events_out[k].event_name # <<>>

\* ------------------------------------------------------------------------
\* consolidate_events on records that compete for one another: several
\* shotgun records of one day that share tokens with the same dice records,
\* an undated shotgun record that shares more, and a repeated id on each side
\* ------------------------------------------------------------------------

MaxGreedySg == 2
MaxGreedyDc == 2

GreedyDay == <<2025, 10, 10, 20, 0>>

GreedyNextDay == <<2025, 10, 11, 20, 0>>

GreedySgPool == {
  Event("g1", <<"A","l","p","h","a"," ","B","e","t","a">>, None, None, None, GreedyDay, 10),
  Event("g2", <<"A","l","p","h","a"," ","G","a","m","m","a">>, None, None, None, GreedyDay, 20),
  Event("g3", <<"A","l","p","h","a"," ","B","e","t","a"," ","G","a","m","m","a">>, None, None, None, NoDate, 30),
  Event("g1", <<"A","l","p","h","a"," ","D","e","l","t","a">>, None, None, None, GreedyDay, 40),
  Event("g5", <<"B","e","t","a">>, None, None, None, GreedyNextDay, 50) }

GreedyDcPool == {
  Event("h1", <<"A","l","p","h","a">>, None, None, None, GreedyDay, 1),
  Event("h2", <<"A","l","p","h","a"," ","B","e","t","a">>, None, None, None, GreedyDay, 2),
  Event("h3", <<"B","e","t","a"," ","G","a","m","m","a">>, None, None, None, GreedyDay, 3),
  Event("h4", <<"G","a","m","m","a">>, None, None, None, NoDate, 4),
  Event("h1", <<"A","l","p","h","a"," ","B","e","t","a">>, None, None, None, GreedyNextDay, 5) }

InitGreedy ==
  /\ shotgun_events \in ListsUpTo(GreedySgPool, MaxGreedySg)
  /\ dice_events \in ListsUpTo(GreedyDcPool, MaxGreedyDc)
  /\ sg_by_day = <<>>
  /\ sg_no_date = <<>>
  /\ used_sg = {}
  /\ used_dc = {}
  /\ rows = <<>>
  /\ src = <<>>
  /\ pc = "index"
  /\ i = 1
  /\ NormIdle
  /\ MergeIdle
  /\ CliIdle
  /\ SheetIdle
  /\ SchemaIdle
  /\ AdapterIdle

SpecGreedy == InitGreedy /\ [][Next]_vars

\* ------------------------------------------------------------------------
\* Properties of the greedy matching of consolidate_events
\* ------------------------------------------------------------------------

SgIdx == 1..Len(shotgun_events)

DcIdx == 1..Len(dice_events)

\* the tokens of a record, and the tokens that records a and b share
Toks(e) == _artist_tokens(e.artist_name, e.event_name)

Shared(a, b) == Toks(shotgun_events[a]) \cap Toks(dice_events[b])

SameDay(a, b) ==
  /\ HasDate(shotgun_events[a])
  /\ HasDate(dice_events[b])
  /\ _date_str(shotgun_events[a]) = _date_str(dice_events[b])

\* shotgun record a is not yet used: its id has not been marked
NotYetUsed(a) == shotgun_events[a].event_id_provider \notin used_sg

\* the same-day candidates of dice record b at this point of the run
SameDayCands(b) ==
  {a \in SgIdx : SameDay(a, b) /\ NotYetUsed(a) /\ Shared(a, b) # {}}

\* the undated candidates of dice record b at this point of the run
UndatedCands(b) ==
  {a \in SgIdx : /\ ~HasDate(shotgun_events[a])
                 /\ NotYetUsed(a)
                 /\ Shared(a, b) # {}}

\* the candidate of greatest overlap, the earliest of the list on a tie
Greatest(cands, b) ==
  CHOOSE a \in cands :
    \A c \in cands :
      \/ Cardinality(Shared(a, b)) > Cardinality(Shared(c, b))
      \/ Cardinality(Shared(a, b)) = Cardinality(Shared(c, b)) /\ a <= c

\* the matching loop is about to treat dice record i
MatchTurn == pc = "match" /\ i \in DcIdx

\* C21: greedy selection.  Every step of the matching loop treats the next
\* dice record of the list and leaves the rows built so far as they are.
\* When the record has a date and some same-day shotgun record whose id is
\* not yet marked shares a token with it, the step appends the pair made of
\* the dice record and the candidate of greatest overlap, the earliest in
\* the shotgun list on a tie, and marks that candidate's id at once.  No
\* shotgun record is ever in two merged rows.
C21_GreedySelection ==
  [][MatchTurn =>
       /\ i' = i + 1
       /\ pc' = "match"
       /\ \A k \in 1..Len(src) : src'[k] = src[k] /\ rows'[k] = rows[k]
       /\ (HasDate(dice_events[i]) /\ SameDayCands(i) # {}) =>
            /\ Len(src') = Len(src) + 1
            /\ src'[Len(src')].dc = i
            /\ src'[Len(src')].sg = Greatest(SameDayCands(i), i)
            /\ shotgun_events[Greatest(SameDayCands(i), i)].event_id_provider
                 \in used_sg'
       /\ \A k1, k2 \in 1..Len(src') :
            (k1 # k2 /\ src'[k1].sg # 0) => src'[k1].sg # src'[k2].sg
    ]_vars

\* C21 witness: the run is over.  A dice record was paired with the earlier
\* of two same-day shotgun records of equal overlap, and a later dice record
\* that shares more tokens with that shotgun record did not get it.
C21_Witness ==
  /\ Done
  /\ \E k \in MergedRows :
       LET a == src[k].sg
           b == src[k].dc
       IN /\ \E a2 \in SgIdx :
               /\ a2 > a
               /\ SameDay(a2, b)
               /\ Cardinality(Shared(a2, b)) = Cardinality(Shared(a, b))
               /\ \A j \in MergedRows : src[j].sg = a2 => src[j].dc > b
          /\ \E b2 \in DcIdx :
               /\ b2 > b
               /\ SameDay(a, b2)
               /\ Cardinality(Shared(a, b2)) > Cardinality(Shared(a, b))

\* C22: a dice record without a date is never a member of a merged row; in
\* particular no row pairs a dice record and a shotgun record that both lack
\* a date.  The row of such a dice record names no shotgun record and has
\* no shotgun ticket count.
C22_UndatedDiceNeverMerged ==
  \A k \in RowIdx :
    (src[k].dc # 0 /\ ~HasDate(dice_events[src[k].dc])) =>
      /\ src[k].sg = 0
      /\ "shotgun_event_id" \notin DOMAIN rows[k]
      /\ rows[k].shotgun_tickets_sold = NoneInt

\* C22 witness: the run is over; a dice record and a shotgun record that
\* both lack a date and share a token each came out as a singleton row.
C22_Witness ==
  /\ Done
  /\ \E a \in SgIdx : \E b \in DcIdx :
       /\ ~HasDate(shotgun_events[a])
       /\ ~HasDate(dice_events[b])
       /\ Shared(a, b) # {}
       /\ \E k \in RowsOfSg(a) : src[k].dc = 0
       /\ \E k \in RowsOfDc(b) : src[k].sg = 0

\* ------------------------------------------------------------------------
\* Properties of the two provider tasks of run_all
\* ------------------------------------------------------------------------

AllTasksDone == \A p \in Providers : task[p].st = "done"

\* C23: adapter barrier.  In every interleaving of the two provider tasks,
\* run_all is past its gather, has written a preview or a CSV export, or has
\* an exit status only when both tasks have returned or failed; and the
\* collected list is the result of the shotgun task followed by the result
\* of the dice task, whichever completed first.
C23_AdapterBarrier ==
  /\ (\/ Gathered
      \/ preview.written
      \/ csv_rows.written /\ csv_rows.by = "run_all"
      \/ exit_status # -1) => AllTasksDone
  /\ ~Gathered => all_events = <<>>
  /\ Gathered => all_events = task["shotgun"].result \o task["dice"].result

\* C23 witness: run_all has returned after writing both files; the dice task
\* completed first, the shotgun task second, each with events, and the
\* shotgun events come first in the collected list.
C23_Witness ==
  /\ rpc = "returned"
  /\ PreviewDumped
  /\ CsvExported
  /\ task["dice"].rank = 1
  /\ task["shotgun"].rank = 2
  /\ task["shotgun"].result # <<>>
  /\ task["dice"].result # <<>>
  /\ all_events[1].provider = "shotgun"
  /\ all_events[Len(all_events)].provider = "dice"

\* ------------------------------------------------------------------------
\* merge_shotgun_dice on records of one name that differ by their timestamp
\* only: around the tolerance, across midnight, and without timestamp
\* ------------------------------------------------------------------------

MaxSlotSg == 2
MaxSlotDc == 2

SlotSgPool == {
  Event("s1", <<"D","a","f","t"," ","P","u","n","k">>, None, None, None, <<2025, 10, 10, 23, 50>>, 100),
  Event("s2", <<"D","a","f","t"," ","P","u","n","k">>, None, None, None, NoDate, 200),
  Event("s3", <<"D","a","f","t"," ","P","u","n","k">>, None, None, None, <<2025, 10, 10, 20, 0>>, 300) }

SlotDcPool == {
  Event("t1", <<"D","a","f","t"," ","P","u","n","k">>, None, None, None, <<2025, 10, 11, 0, 10>>, 1),
  Event("t2", <<"D","a","f","t"," ","P","u","n","k">>, None, None, None, <<2025, 10, 10, 20, 30>>, 2),
  Event("t3", <<"D","a","f","t"," ","P","u","n","k">>, None, None, None, <<2025, 10, 10, 20, 31>>, 3),
  Event("t4", <<"D","a","f","t"," ","P","u","n","k">>, None, None, None, NoDate, 4) }

InitSlot ==
  /\ shotgun \in ListsUpTo(SlotSgPool, MaxSlotSg)
  /\ dice \in ListsUpTo(SlotDcPool, MaxSlotDc)
  /\ hour_tolerance_min \in TolerancePool
  /\ name_threshold \in ThresholdPool
  /\ sg_index = <<>>
  /\ out = <<>>
  /\ osrc = <<>>
  /\ mpc = "index"
  /\ mi = 1
  /\ CeIdle
  /\ NormIdle
  /\ CliIdle
  /\ SheetIdle
  /\ SchemaIdle
  /\ AdapterIdle

SpecSlot == InitSlot /\ [][NextMerge]_vars

\* ------------------------------------------------------------------------
\* Properties of the time tests of merge_shotgun_dice
\* ------------------------------------------------------------------------

\* the number of days from 1970-01-01 to the date of dt (proleptic Gregorian
\* calendar), and the minutes between two datetimes
DayNumber(dt) ==
  LET y == IF dt[2] <= 2 THEN dt[1] - 1 ELSE dt[1]
      era == y \div 400
      yoe == y - era * 400
      mp == (dt[2] + 9) % 12
      doy == (153 * mp + 2) \div 5 + dt[3] - 1
      doe == yoe * 365 + yoe \div 4 - yoe \div 100 + doy
  IN era * 146097 + doe - 719468

AbsMinutes(a, b) ==
  Abs((DayNumber(a) * 1440 + MinuteOfDay(a)) - (DayNumber(b) * 1440 + MinuteOfDay(b)))

\* the shotgun records that sg_index holds, in the order of the index
Indexed == {sg_index[k].val : k \in 1..Len(sg_index)}

\* the shotgun record to whose row dice record d was attached (0: none)
AttachedTo(d) ==
  IF \E k \in OutIdx : osrc[k].val.sg # 0 /\ InSeq(osrc[k].val.dc, d)
  THEN osrc[CHOOSE k \in OutIdx : osrc[k].val.sg # 0 /\ InSeq(osrc[k].val.dc, d)].val.sg
  ELSE 0

\* the names of shotgun record a and dice record d are similar enough
NameOk(a, d) ==
  LET score == _sim(shotgun[a].event_name, dice[d].event_name)
  IN ScoreAtLeast(score, name_threshold) /\ ScoreGreater(score, <<0, 1>>)

\* same slot as stated: both timestamps present and at most
\* hour_tolerance_min minutes apart
InSlot(a, d) ==
  /\ shotgun[a].event_datetime_local # NoDate
  /\ dice[d].event_datetime_local # NoDate
  /\ AbsMinutes(shotgun[a].event_datetime_local, dice[d].event_datetime_local)
       <= hour_tolerance_min

\* same slot as the code tests it: a missing timestamp excludes nothing; two
\* timestamps must be of one calendar day and at most hour_tolerance_min
\* minutes apart
TimeCompatible(a, d) ==
  \/ shotgun[a].event_datetime_local = NoDate
  \/ dice[d].event_datetime_local = NoDate
  \/ /\ SameDate(shotgun[a].event_datetime_local, dice[d].event_datetime_local)
     /\ AbsMinutes(shotgun[a].event_datetime_local, dice[d].event_datetime_local)
          <= hour_tolerance_min

\* C24 (as stated): when merge_shotgun_dice has returned, a dice record is
\* attached only to a shotgun record that is in the same slot, both
\* timestamps present and at most hour_tolerance_min minutes apart, and a
\* dice record with an indexed shotgun record in the same slot and of
\* similar name is attached.
C24_SameSlotIff ==
  MergeDone =>
    \A d \in 1..Len(dice) :
      /\ AttachedTo(d) # 0 => InSlot(AttachedTo(d), d)
      /\ (\E a \in Indexed : InSlot(a, d) /\ NameOk(a, d)) => AttachedTo(d) # 0

\* C24 (amended): when merge_shotgun_dice has returned, a dice record is
\* attached only to a shotgun record of similar name that is time
\* compatible with it: one of the two timestamps is missing, or both are of
\* the same calendar day and at most hour_tolerance_min minutes apart; and a
\* dice record with an indexed shotgun record that is time compatible and of
\* similar name is attached.
C24_TimeCompatibleIff ==
  MergeDone =>
    \A d \in 1..Len(dice) :
      /\ AttachedTo(d) # 0 =>
           TimeCompatible(AttachedTo(d), d) /\ NameOk(AttachedTo(d), d)
      /\ (\E a \in Indexed : TimeCompatible(a, d) /\ NameOk(a, d)) =>
           AttachedTo(d) # 0

\* C24 witness: merge_shotgun_dice has returned with a tolerance of 30
\* minutes; a dice record without timestamp was attached, and a dice record
\* ten minutes past midnight was not attached although a shotgun record of
\* the same name is twenty minutes before it, on the day before.
C24_Witness ==
  /\ MergeDone
  /\ hour_tolerance_min = 30
  /\ \E d \in 1..Len(dice) :
       /\ dice[d].event_datetime_local = NoDate
       /\ AttachedTo(d) # 0
  /\ \E d \in 1..Len(dice) :
       /\ AttachedTo(d) = 0
       /\ \E a \in Indexed : InSlot(a, d) /\ NameOk(a, d)

\* ------------------------------------------------------------------------
\* Properties of the rows of merge_shotgun_dice
\* ------------------------------------------------------------------------

\* C25: at-most-once consumption.  No row of a shotgun record has had more
\* than one dice record attached to it: no shotgun record is merged with two
\* dice records.
C25_AtMostOneDice ==
  \A k \in OutIdx : osrc[k].val.sg # 0 => Len(osrc[k].val.dc) <= 1

\* C26: completeness.  When merge_shotgun_dice has returned, the list has
\* one row per shotgun record plus one row per dice record that was attached
\* to no shotgun row, each shotgun record has a row with its ticket count,
\* and each dice record has a row with its ticket count.
C26_Completeness ==
  MergeDone =>
    /\ Len(out) = Len(shotgun) + Cardinality({d \in 1..Len(dice) : AttachedTo(d) = 0})
    /\ \A a \in 1..Len(shotgun) :
         \E k \in OutIdx :
           /\ osrc[k].val.sg = a
           /\ out[k].val.tickets_sold_total_shotgun = shotgun[a].tickets_sold_total
    /\ \A d \in 1..Len(dice) :
         \E k \in OutIdx :
           /\ InSeq(osrc[k].val.dc, d)
           /\ out[k].val.tickets_sold_total_dice = dice[d].tickets_sold_total

\* C27: match soundness.  Every merged row pairs a dice record that has a
\* date with a shotgun record that shares at least one artist token with it
\* and that is of the same calendar day or has no date: records of different
\* known days, and records with disjoint token sets, are never merged.
C27_MatchSoundness ==
  \A k \in MergedRows :
    /\ HasDate(dice_events[src[k].dc])
    /\ Shared(src[k].sg, src[k].dc) # {}
    /\ \/ ~HasDate(shotgun_events[src[k].sg])
       \/ SameDay(src[k].sg, src[k].dc)

\* C27 witness: the run is over; a dice record was merged with a shotgun
\* record of its day, while a shotgun record of another day that also shares
\* a token with it was left as a singleton.
C27_Witness ==
  /\ Done
  /\ \E k \in MergedRows : \E a2 \in SgIdx :
       /\ SameDay(src[k].sg, src[k].dc)
       /\ HasDate(shotgun_events[a2])
       /\ ~SameDay(a2, src[k].dc)
       /\ Shared(a2, src[k].dc) # {}
       /\ \E j \in RowsOfSg(a2) : src[j].dc = 0

\* the last row built is the pair of shotgun record a and dice record b
AppendedPair(a, b) ==
  /\ Len(src') = Len(src) + 1
  /\ src'[Len(src')].sg = a
  /\ src'[Len(src')].dc = b

\* C28: fallback precedence.  In every step of the matching loop on a dated
\* dice record: if some same-day shotgun record whose id is not yet marked
\* shares a token with it, the record is paired with one of these, whatever
\* the undated shotgun records share with it; only if there is none is it
\* paired with the undated shotgun record of greatest overlap; and if there
\* is none of either kind no row is built.
C28_FallbackPrecedence ==
  [][(MatchTurn /\ HasDate(dice_events[i])) =>
       /\ SameDayCands(i) # {} =>
            \E a \in SameDayCands(i) : AppendedPair(a, i)
       /\ (SameDayCands(i) = {} /\ UndatedCands(i) # {}) =>
            AppendedPair(Greatest(UndatedCands(i), i), i)
       /\ (SameDayCands(i) = {} /\ UndatedCands(i) = {}) => src' = src
    ]_vars

\* C28 witness: the run is over; a dice record was paired with a same-day
\* shotgun record although an undated one, free at that time, shares more
\* tokens with it, and that undated record went to a later dice record by
\* the fallback.
C28_Witness ==
  /\ Done
  /\ \E k \in MergedRows : \E j \in MergedRows :
       /\ SameDay(src[k].sg, src[k].dc)
       /\ ~HasDate(shotgun_events[src[j].sg])
       /\ src[j].dc > src[k].dc
       /\ Cardinality(Shared(src[j].sg, src[k].dc))
            > Cardinality(Shared(src[k].sg, src[k].dc))

\* shotgun record a could have been matched with dice record b
Compatible(a, b) ==
  /\ HasDate(dice_events[b])
  /\ SameDay(a, b) \/ ~HasDate(shotgun_events[a])
  /\ Shared(a, b) # {}

\* C29: maximality.  When the ids are distinct within each side and the run
\* is over, no dice singleton row and shotgun singleton row are of records
\* that could have been matched: a dated dice record and a shotgun record of
\* its day, or undated, that share a token.
C29_Maximality ==
  (Done /\ DistinctIds(shotgun_events) /\ DistinctIds(dice_events)) =>
    \A k, j \in RowIdx :
      (src[k].dc = 0 /\ src[j].sg = 0) => ~Compatible(src[k].sg, src[j].dc)

\* C29 witness: the run is over on records of distinct ids; a dated dice
\* record and a shotgun record that share a token are both singleton rows,
\* being of different days, and another pair was merged.
C29_Witness ==
  /\ Done
  /\ DistinctIds(shotgun_events) /\ DistinctIds(dice_events)
  /\ MergedRows # {}
  /\ \E k, j \in RowIdx :
       /\ src[k].dc = 0 /\ src[j].sg = 0
       /\ HasDate(dice_events[src[j].dc])
       /\ HasDate(shotgun_events[src[k].sg])
       /\ Shared(src[k].sg, src[j].dc) # {}

\* ------------------------------------------------------------------------
\* run_all when every attempt of an adapter terminates: the event loop keeps
\* running what is ready, so run_all keeps taking steps until it returns
\* ------------------------------------------------------------------------

FairSpecCli == InitCli /\ [][RunAll]_vars /\ WF_vars(RunAll)

\* C30: bounded retry and termination.  The run of an adapter
\* is never attempted more than 3 times; a provider has failed only after
\* its third attempt raised, and it then contributes no event to the
\* collected list; and run_all eventually returns the exit status 0 or 1.
C30_BoundedRetry ==
  /\ [](\A p \in Providers :
          /\ task[p].attempts <= 3
          /\ task[p].failed =>
               /\ task[p].attempts = 3
               /\ task[p].result = <<>>
               /\ \A k \in 1..Len(all_events) : all_events[k].provider # p)
  /\ <>(rpc = "returned" /\ exit_status \in {0, 1})

====
